---- MODULE Spec2Model ----
(***************************************************************************)
(* Model of the etlx Transaction (src/unnamed/part_002): the batch cursor, *)
(* the single-shot and the batched Exec, the transform+load workers, the   *)
(* queue channel, the WaitGroup, batchMutex and a concurrent caller of     *)
(* SetBatchSize.  The extract handler embeds driver.Batch                  *)
(* (src/unnamed/part_001).  Further: the handles of a Transaction over the *)
(* calls of its owner (SpecLife), the driver registry and Open of          *)
(* src/etlx.go (SpecReg), and the conversions and Command.UnmarshalJSON of *)
(* package driver, src/driver/types.go (SpecFn), and its Table             *)
(* (SpecTable).                                                            *)
(***************************************************************************)
EXTENDS Integers, Sequences, FiniteSets, TLC

\* ---------------------------------------------------------------- bounds
MaxRows == 2
MaxBatch == 2
MaxCPU == 2
MaxSetBatchSize == 1
\* calls of ExtractOpen, TransformOpen, LoadOpen, Exec, SetBatchSize and
\* FlashBatch on one Transaction, and calls of its Close
MaxLifeCalls == 5
MaxCloses == 2
\* factories handed to the Register functions, and calls on the registry
MaxFactories == 2
MaxRegCalls == 4
\* length of the strings, and size in tenths of the floats, handed to the
\* conversions of package driver
MaxStrLen == 3
MaxTenths == 30
\* nested commands of one complex or single command
MaxItems == 2
\* columns and contents handed to ArrayToMap and MapToArray
MaxColumns == 2
MaxContents == 3
\* rows of a Table, and calls on it
MaxTableRows == 2
MaxTableCalls == 5

\* The extract loop has no bound of its own in the code; the model stops
\* issuing extract calls after this many.
MaxExtracts == MaxRows + 1

\* ... and stops dispatching workers after this many.
MaxWorkers == MaxRows

Batches == 1..MaxExtracts
Workers == 1..MaxWorkers
\* goroutine 0 is the one that called Exec; it runs transform and load itself
\* in single-shot mode
Procs == 0..MaxWorkers
RowIds == 0..(MaxRows - 1)

Min(a, b) == IF a < b THEN a ELSE b

VARIABLES
    \* Transaction fields
    batchCtl, batchSize, offset, limit, batchMutex,
    extractResults, transformResults,
    \* the extract handler: its embedded driver.Batch, and the data source
    hBatch, nRows, eod,
    \* the goroutine running Exec
    pc, cmd, rows, retErr, numCPU, wg, queue, extBegun,
    \* transform and load, per goroutine
    wpc, wrows, wrslt, werr,
    \* the goroutine calling SetBatchSize
    spc, sarg, scalls,
    \* history
    extLog, mainCalls, recvCount, transCount, loadCount, rowLoads,
    \* the handles of a Transaction and the calls of its owner
    lhandles, lcur, lpc, errSlice, lcalls, lcloses,
    \* the driver registry and the outcome of the last call on it
    drivers, regOut, regCalls,
    \* argument and result of a conversion of package driver
    fin, fout,
    \* a driver.Table, the outcome of the last call on it, the calls of Next
    \* that returned nil, whether one has reported the end, and the calls
    \* made on it
    tdata, tcursor, tout, tnexts, tended, tcalls

vars == <<batchCtl, batchSize, offset, limit, batchMutex,
          extractResults, transformResults, hBatch, nRows, eod,
          pc, cmd, rows, retErr, numCPU, wg, queue, extBegun,
          wpc, wrows, wrslt, werr, spc, sarg, scalls,
          extLog, mainCalls, recvCount, transCount, loadCount, rowLoads,
          lhandles, lcur, lpc, errSlice, lcalls, lcloses,
          drivers, regOut, regCalls, fin, fout,
          tdata, tcursor, tout, tnexts, tended, tcalls>>

execVars == <<batchCtl, batchSize, offset, limit, batchMutex,
              extractResults, transformResults, hBatch, nRows, eod,
              pc, cmd, rows, retErr, numCPU, wg, queue, extBegun,
              wpc, wrows, wrslt, werr, spc, sarg, scalls,
              extLog, mainCalls, recvCount, transCount, loadCount, rowLoads>>
lifeVars == <<lhandles, lcur, lpc, errSlice, lcalls, lcloses>>
regVars == <<drivers, regOut, regCalls>>
fnVars == <<fin, fout>>
tableVars == <<tdata, tcursor, tout, tnexts, tended, tcalls>>

\* What a run of Exec leaves alone: the configuration and the data source,
\* and everything outside the Transaction's run.
envVars == <<batchCtl, batchSize, nRows, eod, numCPU, lifeVars, regVars, fnVars,
             tableVars>>
cursorVars == <<offset, limit, batchMutex, hBatch>>
callerVars == <<spc, sarg, scalls>>
workerHist == <<recvCount, transCount, loadCount, rowLoads>>

\* The three phases of a Transaction, in the order Close releases them.
Handles == <<"extract", "transform", "load">>
Domains == {Handles[i] : i \in 1..3}

\* A Transaction as Open returns it: no handler opened yet.
NoHandler == 0
LifeIdle ==
    /\ lhandles = <<>>
    /\ lcur = [d \in Domains |-> NoHandler]
    /\ lpc = "ready"
    /\ errSlice = <<>>
    /\ lcalls = 0
    /\ lcloses = 0

\* The registry maps before any Register call.
RegNames == {"a", "b"}
NoDriver == 0
Factories == 1..MaxFactories
RegIdle ==
    /\ drivers = [d \in Domains |-> [n \in RegNames |-> NoDriver]]
    /\ regOut = [op |-> "none"]
    /\ regCalls = 0

FnIdle ==
    /\ fin = [fn |-> "none"]
    /\ fout = [fn |-> "none"]

\* func NewTable(capacity int) *Table: no rows, the cursor at 0.
NewTable ==
    /\ tdata = <<>>
    /\ tcursor = 0
    /\ tout = [op |-> "NewTable"]
    /\ tnexts = 0
    /\ tended = FALSE
    /\ tcalls = 0

\* ------------------------------------------------------- driver.Batch
\* The zero value of driver.Batch, the state of a handler on which SetBatch
\* was never called.
NoBatch == [Flag |-> FALSE, Limit |-> 0, Offset |-> 0]

\* func (bt *Batch) SetBatch(limit, offset int64)
SetBatch(l, o) == [Flag |-> TRUE, Limit |-> l, Offset |-> o]

\* The rows a handler's Query selects from a source of n rows for the batch
\* setting c its Command captured: rows lo .. hi-1.  With the flag off
\* ("false: disable") the query is not limited.
QueryWindow(c, n) ==
    IF c.Flag
    THEN [lo |-> Min(c.Offset, n), hi |-> Min(c.Offset + c.Limit, n)]
    ELSE [lo |-> 0, hi |-> n]

RowsOf(r) == {i \in RowIds : r.lo <= i /\ i < r.hi}
RowCount(r) == IF r.hi > r.lo THEN r.hi - r.lo ELSE 0

\* ------------------------------------------------------------- Open
\* Open sets "disable", 0, 0, 0 and then applies the options.
OpenDefault == [ctl |-> "disable", size |-> 0, limit |-> 0, offset |-> 0]

\* BatchEnable(ctl, size) applied to a Transaction
BatchEnable(ctl, size) == [ctl |-> ctl, size |-> size, limit |-> size, offset |-> 0]

OpenStates ==
    {OpenDefault} \cup
    {BatchEnable(c, s) : c \in {"enable", "disable"}, s \in 0..MaxBatch}

ExecInit ==
    /\ \E o \in OpenStates :
        /\ batchCtl = o.ctl
        /\ batchSize = o.size
        /\ limit = o.limit
        /\ offset = o.offset
    /\ batchMutex = "free"
    /\ extractResults = 0
    /\ transformResults = 0
    /\ hBatch = NoBatch
    /\ nRows \in 0..MaxRows
    /\ eod \in {"error", "empty"}
    /\ numCPU \in 1..MaxCPU
    /\ pc = "ready"
    /\ cmd = NoBatch
    /\ rows = 0
    /\ retErr = "none"
    /\ wg = 0
    /\ queue = <<>>
    /\ extBegun = 0
    /\ wpc = [g \in Procs |-> "none"]
    /\ wrows = [g \in Procs |-> 0]
    /\ wrslt = [g \in Procs |-> 0]
    /\ werr = [g \in Procs |-> "nil"]
    /\ spc = "idle"
    /\ sarg = 0
    /\ scalls = 0
    /\ extLog = <<>>
    /\ mainCalls = <<>>
    /\ recvCount = [b \in Batches |-> 0]
    /\ transCount = [b \in Batches |-> 0]
    /\ loadCount = [b \in Batches |-> 0]
    /\ rowLoads = [i \in RowIds |-> 0]

Init ==
    /\ ExecInit
    /\ LifeIdle
    /\ RegIdle
    /\ FnIdle
    /\ NewTable

\* A handler call made by the goroutine running Exec.
Call(op, a, b, err) == [op |-> op, a |-> a, b |-> b, err |-> err]

\* ------------------------------------------------------------ extract
\* Exec on return of t.extract: the batched loop breaks on any error, the
\* single-shot path returns it.
AfterExtract(err) ==
    IF batchCtl = "enable"
    THEN /\ pc' = (IF err # "nil" THEN "wait" ELSE "spawn")
         /\ UNCHANGED <<retErr, wpc, wrows>>
    ELSE IF err # "nil"
    THEN /\ pc' = "done"
         /\ retErr' = err
         /\ UNCHANGED <<wpc, wrows>>
    ELSE /\ pc' = "transLoad"
         /\ wpc' = [wpc EXCEPT ![0] = "trans"]
         /\ wrows' = [wrows EXCEPT ![0] = rows']
         /\ UNCHANGED retErr

\* t.extract returns: what the call ran with and what it gave.
extractReturn(c, w, err) ==
    /\ extLog' = Append(extLog, [flag |-> c.Flag, limit |-> c.Limit,
                                 offset |-> c.Offset, lo |-> w.lo, hi |-> w.hi,
                                 err |-> err])
    /\ AfterExtract(err)

\* Exec is entered; both modes start with t.extract.
ExecBegin ==
    /\ pc = "ready"
    /\ pc' = "extCmd"
    /\ UNCHANGED <<envVars, cursorVars, callerVars, workerHist,
                   extractResults, transformResults, cmd, rows, retErr, wg,
                   queue, extBegun, wpc, wrows, wrslt, werr, extLog, mainCalls>>

extractCommandDetached ==
    /\ pc \in {"extCmd", "extQuery"}
    /\ extBegun < MaxExtracts
    /\ extBegun' = extBegun + 1
    /\ mainCalls' = Append(mainCalls,
                           Call("ExtCmd", hBatch.Limit, hBatch.Offset, "nil"))
    /\ cmd' = hBatch
    /\ pc' = "extQuery"
    /\ UNCHANGED <<envVars, cursorVars, callerVars, workerHist,
                   extractResults, transformResults, rows, wg, queue,
                   wrslt, werr, extLog, retErr, wpc, wrows>>

\* t.extractHandler.Command(args): the handler builds its query from the
\* batch setting it holds at this moment.
extractCommand ==
    /\ pc = "extCmd"
    /\ extBegun < MaxExtracts
    /\ extBegun' = extBegun + 1
    /\ \E ok \in BOOLEAN :
        LET err == IF ok THEN "nil" ELSE "ExtCmdErr" IN
        /\ mainCalls' = Append(mainCalls,
                               Call("ExtCmd", hBatch.Limit, hBatch.Offset, err))
        /\ IF ok
           THEN /\ cmd' = hBatch
                /\ pc' = "extQuery"
                /\ UNCHANGED <<extLog, retErr, wpc, wrows>>
           ELSE /\ cmd' = cmd
                /\ extractReturn(hBatch, [lo |-> 0, hi |-> 0], err)
    /\ UNCHANGED <<envVars, cursorVars, callerVars, workerHist,
                   extractResults, transformResults, rows, wg, queue,
                   wrslt, werr>>

\* t.extractHandler.Query(cmd), then t.extractResults = results; *rows = results
extractQuery ==
    /\ pc = "extQuery"
    /\ LET w == QueryWindow(cmd, nRows) IN
       \E ok \in BOOLEAN :
        LET err == IF ~ok THEN "ExtQueryErr"
                   ELSE IF RowCount(w) = 0 /\ eod = "error" THEN "ExtEOD"
                   ELSE "nil" IN
        /\ mainCalls' = Append(mainCalls,
                               Call("ExtQuery", cmd.Limit, cmd.Offset, err))
        /\ IF err = "nil"
           THEN /\ extractResults' = Len(extLog) + 1
                /\ rows' = Len(extLog) + 1
                /\ extractReturn(cmd, w, err)
           ELSE /\ UNCHANGED <<extractResults, rows>>
                /\ extractReturn(cmd, [lo |-> 0, hi |-> 0], err)
    /\ UNCHANGED <<envVars, cursorVars, callerVars, workerHist,
                   transformResults, cmd, wg, queue, extBegun, wrslt, werr>>

\* ------------------------------------------------- the batched loop
\* wg.Add(1); go func() { r := <-queue; ... }()
ExecSpawn ==
    /\ pc = "spawn"
    /\ Len(extLog) <= MaxWorkers
    /\ wg' = wg + 1
    /\ wpc' = [wpc EXCEPT ![Len(extLog)] = "recv"]
    /\ pc' = "send"
    /\ UNCHANGED <<envVars, cursorVars, callerVars, workerHist,
                   extractResults, transformResults, cmd, rows, retErr,
                   queue, extBegun, wrows, wrslt, werr, extLog, mainCalls>>

\* queue <- *rows, on a channel of capacity runtime.NumCPU()
ExecSend ==
    /\ pc = "send"
    /\ Len(queue) < numCPU
    /\ queue' = Append(queue, rows)
    /\ pc' = "flashLock"
    /\ UNCHANGED <<envVars, cursorVars, callerVars, workerHist,
                   extractResults, transformResults, cmd, rows, retErr, wg,
                   extBegun, wpc, wrows, wrslt, werr, extLog, mainCalls>>

FlashCursorKeepsOffset(off, lim, size) == [offset |-> off, limit |-> size]

\* The cursor FlashBatch leaves, from the cursor it finds.
FlashCursor(off, lim, size) ==
    IF lim = 0
    THEN [offset |-> off, limit |-> size]
    ELSE [offset |-> off + lim, limit |-> size]

\* t.FlashBatch(): t.batchMutex.Lock()
FlashBatchLock ==
    /\ pc = "flashLock"
    /\ batchMutex = "free"
    /\ batchMutex' = "exec"
    /\ pc' = "flashBody"
    /\ UNCHANGED <<envVars, callerVars, workerHist, offset, limit, hBatch,
                   extractResults, transformResults, cmd, rows, retErr, wg,
                   queue, extBegun, wpc, wrows, wrslt, werr, extLog, mainCalls>>

\* FlashBatch's body and its deferred Unlock
FlashBatch ==
    /\ pc = "flashBody"
    /\ LET c == FlashCursor(offset, limit, batchSize) IN
        /\ offset' = c.offset
        /\ limit' = c.limit
        /\ hBatch' = SetBatch(c.limit, c.offset)
        /\ mainCalls' = Append(mainCalls,
                               Call("SetBatch", c.limit, c.offset, "nil"))
    /\ batchMutex' = "free"
    /\ pc' = "extCmd"
    /\ UNCHANGED <<envVars, callerVars, workerHist,
                   extractResults, transformResults, cmd, rows, retErr, wg,
                   queue, extBegun, wpc, wrows, wrslt, werr, extLog>>

ExecWaitNoJoin ==
    /\ pc = "wait"
    /\ pc' = "done"
    /\ retErr' = "nil"
    /\ UNCHANGED <<envVars, cursorVars, callerVars, workerHist,
                   extractResults, transformResults, cmd, rows, wg,
                   queue, extBegun, wpc, wrows, wrslt, werr, extLog, mainCalls>>

ExecWaitFirstError ==
    /\ pc = "wait"
    /\ wg = 0
    /\ pc' = "done"
    /\ retErr' = (IF \E g \in Workers : werr[g] # "nil"
                  THEN werr[CHOOSE g \in Workers : werr[g] # "nil"]
                  ELSE IF extLog[Len(extLog)].err \in {"ExtCmdErr", "ExtQueryErr"}
                  THEN extLog[Len(extLog)].err
                  ELSE "nil")
    /\ UNCHANGED <<envVars, cursorVars, callerVars, workerHist,
                   extractResults, transformResults, cmd, rows, wg,
                   queue, extBegun, wpc, wrows, wrslt, werr, extLog, mainCalls>>

\* wg.Wait(), then return nil
ExecWait ==
    /\ pc = "wait"
    /\ wg = 0
    /\ pc' = "done"
    /\ retErr' = "nil"
    /\ UNCHANGED <<envVars, cursorVars, callerVars, workerHist,
                   extractResults, transformResults, cmd, rows, wg,
                   queue, extBegun, wpc, wrows, wrslt, werr, extLog, mainCalls>>

\* The caller of Exec goes on to t.Close() once Exec has returned.
Close ==
    /\ pc = "done"
    /\ pc' = "closed"
    /\ UNCHANGED <<envVars, cursorVars, callerVars, workerHist,
                   extractResults, transformResults, cmd, rows, retErr, wg,
                   queue, extBegun, wpc, wrows, wrslt, werr, extLog, mainCalls>>

\* ---------------------------------------------- SetBatchSize, concurrently
\* The cursor SetBatchSize(batch) leaves, from the cursor it finds.
SetBatchSizeCursor(off, lim, batch) ==
    IF lim = 0
    THEN [offset |-> off, limit |-> batch]
    ELSE [offset |-> off + lim, limit |-> batch]

\* another goroutine calls t.SetBatchSize(b): t.batchMutex.Lock()
SetBatchSizeLock ==
    /\ spc = "idle"
    /\ pc # "closed"
    /\ scalls < MaxSetBatchSize
    /\ batchMutex = "free"
    /\ batchMutex' = "caller"
    /\ \E b \in 1..MaxBatch : sarg' = b
    /\ spc' = "body"
    /\ scalls' = scalls + 1
    /\ UNCHANGED <<envVars, workerHist, offset, limit, hBatch,
                   extractResults, transformResults, pc, cmd, rows, retErr,
                   wg, queue, extBegun, wpc, wrows, wrslt, werr, extLog,
                   mainCalls>>

\* SetBatchSize's body and its deferred Unlock
SetBatchSize ==
    /\ spc = "body"
    /\ LET c == SetBatchSizeCursor(offset, limit, sarg) IN
        /\ offset' = c.offset
        /\ limit' = c.limit
        /\ hBatch' = SetBatch(c.limit, c.offset)
    /\ batchMutex' = "free"
    /\ spc' = "idle"
    /\ UNCHANGED <<envVars, workerHist, sarg, scalls,
                   extractResults, transformResults, pc, cmd, rows, retErr,
                   wg, queue, extBegun, wpc, wrows, wrslt, werr, extLog,
                   mainCalls>>

\* ------------------------------------------------ transform and load
\* The goroutine g leaves transform+load with error e: Exec (g = 0, single
\* shot) returns e; a worker drops the result of execTransLoad and calls
\* wg.Done().
Finish(g, e) ==
    /\ wpc' = [wpc EXCEPT ![g] = "finished"]
    /\ werr' = [werr EXCEPT ![g] = e]
    /\ IF g = 0
       THEN pc' = "done" /\ retErr' = e /\ wg' = wg
       ELSE wg' = wg - 1 /\ UNCHANGED <<pc, retErr>>

Goto(g, next) ==
    /\ wpc' = [wpc EXCEPT ![g] = next]
    /\ UNCHANGED <<werr, pc, retErr, wg>>

\* The handler calls of the goroutine running Exec are logged, in order.
LogMain(g, cs) ==
    mainCalls' = IF g = 0 THEN mainCalls \o cs ELSE mainCalls

WorkerRecvPeek(g) ==
    /\ g \in Workers
    /\ wpc[g] = "recv"
    /\ queue # <<>>
    /\ wrows' = [wrows EXCEPT ![g] = Head(queue)]
    /\ queue' = queue
    /\ recvCount' = [recvCount EXCEPT ![Head(queue)] = @ + 1]
    /\ Goto(g, "trans")
    /\ UNCHANGED <<envVars, cursorVars, callerVars, transCount, loadCount,
                   rowLoads, extractResults, transformResults, cmd, rows,
                   extBegun, wrslt, extLog, mainCalls>>

\* r := <-queue
WorkerRecv(g) ==
    /\ g \in Workers
    /\ wpc[g] = "recv"
    /\ queue # <<>>
    /\ wrows' = [wrows EXCEPT ![g] = Head(queue)]
    /\ queue' = Tail(queue)
    /\ recvCount' = [recvCount EXCEPT ![Head(queue)] = @ + 1]
    /\ Goto(g, "trans")
    /\ UNCHANGED <<envVars, cursorVars, callerVars, transCount, loadCount,
                   rowLoads, extractResults, transformResults, cmd, rows,
                   extBegun, wrslt, extLog, mainCalls>>

transformCommandErrorDropped == "nil"

\* What t.transform returns when the handler's Command fails.
transformCommandError == "TransCmdErr"

\* t.transform: t.transformHandler.Command(args), then
\* t.transformHandler.Exec(rows, cmd); each may fail.
transform(g) ==
    /\ wpc[g] = "trans"
    /\ \E out \in {"TransCmdErr", "TransExecErr", "nil"} :
        IF out = "TransCmdErr"
        THEN /\ LogMain(g, <<Call("TransCmd", 0, 0, out)>>)
             /\ UNCHANGED transCount
             /\ IF transformCommandError # "nil"
                THEN Finish(g, transformCommandError)
                ELSE Goto(g, "load")
        ELSE /\ LogMain(g, <<Call("TransCmd", 0, 0, "nil"),
                             Call("TransExec", wrows[g], 0, out)>>)
             /\ transCount' = [transCount EXCEPT ![wrows[g]] = @ + 1]
             /\ IF out = "nil" THEN Goto(g, "tStore") ELSE Finish(g, out)
    /\ UNCHANGED <<envVars, cursorVars, callerVars, recvCount, loadCount,
                   rowLoads, extractResults, transformResults, cmd, rows,
                   queue, extBegun, wrows, wrslt, extLog>>

\* What t.transformResults may hold after goroutine g stores into it: its own
\* results, or, when another goroutine is at the same unsynchronised store,
\* that one's results or a torn interface value (-1).
StoreOutcomes(g) ==
    LET racing == {h \in Procs \ {g} : wpc[h] = "tStore"} IN
    IF racing = {} THEN {wrows[g]}
    ELSE {wrows[g], -1} \cup {wrows[h] : h \in racing}

\* t.transform: t.transformResults = results; *rslt = results
transformStore(g) ==
    /\ wpc[g] = "tStore"
    /\ transformResults' \in StoreOutcomes(g)
    /\ wrslt' = [wrslt EXCEPT ![g] = wrows[g]]
    /\ Goto(g, "load")
    /\ UNCHANGED <<envVars, cursorVars, callerVars, workerHist,
                   extractResults, cmd, rows, queue, extBegun, wrows,
                   extLog, mainCalls>>

\* The rows behind the result sequence of batch b.
ResultRows(b) == IF b \in 1..Len(extLog) THEN RowsOf(extLog[b]) ELSE {}

\* t.load: t.loadHandler.Command(args), then t.loadHandler.Load(rows, cmd);
\* each may fail.
load(g) ==
    /\ wpc[g] = "load"
    /\ \E out \in {"LoadCmdErr", "LoadErr", "nil"} :
        /\ IF out = "LoadCmdErr"
           THEN /\ LogMain(g, <<Call("LoadCmd", 0, 0, out)>>)
                /\ UNCHANGED <<loadCount, rowLoads>>
           ELSE /\ LogMain(g, <<Call("LoadCmd", 0, 0, "nil"),
                                Call("Load", wrslt[g], 0, out)>>)
                /\ loadCount' = [b \in Batches |->
                        IF b = wrslt[g] THEN loadCount[b] + 1 ELSE loadCount[b]]
                /\ rowLoads' = [i \in RowIds |->
                        IF i \in ResultRows(wrslt[g]) THEN rowLoads[i] + 1
                        ELSE rowLoads[i]]
        /\ Finish(g, out)
    /\ UNCHANGED <<envVars, cursorVars, callerVars, recvCount, transCount,
                   extractResults, transformResults, cmd, rows, queue,
                   extBegun, wrows, wrslt, extLog>>

\* ----------------------------------------------------- specification
\* Exec (single-shot or batched) with its workers, then Close.
Next ==
    \/ ExecBegin
    \/ extractCommand
    \/ extractQuery
    \/ ExecSpawn
    \/ ExecSend
    \/ FlashBatchLock
    \/ FlashBatch
    \/ ExecWait
    \/ Close
    \/ \E g \in Procs :
        \/ WorkerRecv(g)
        \/ transform(g)
        \/ transformStore(g)
        \/ load(g)

Spec == Init /\ [][Next]_vars

\* The same, with another goroutine calling SetBatchSize at any moment, on a
\* batched Transaction.
InitConc == Init /\ batchCtl = "enable"

NextConc ==
    \/ Next
    \/ SetBatchSizeLock
    \/ SetBatchSize

SpecConc == InitConc /\ [][NextConc]_vars

\* ============================================================ claims
BatchedRun == batchCtl = "enable" /\ batchSize > 0
SingleShot == batchCtl # "enable"

CeilDiv(n, b) == (n + b - 1) \div b

\* no handler call returned an error of its own (end-of-data is not one)
ExtractFaultFree == \A k \in 1..Len(extLog) : extLog[k].err \in {"nil", "ExtEOD"}
WorkerFaultFree == \A g \in Procs : werr[g] = "nil"

\* a batched run with B > 0 against a handler that ends the data by an error,
\* in which no handler call failed
CleanBatchedRun ==
    BatchedRun /\ eod = "error" /\ ExtractFaultFree /\ WorkerFaultFree

Spawned == {g \in Workers : wpc[g] # "none"}
Finished == {g \in Workers : wpc[g] = "finished"}
\* workers that have received their batch and are in transform or load
Running == {g \in Workers : wpc[g] \in {"trans", "tStore", "load"}}
ExtractsOK == {k \in 1..Len(extLog) : extLog[k].err = "nil"}
\* extract calls begun and not yet returned
ExtractsInFlight == extBegun - Len(extLog)

\* C1 (as claimed): in batched mode with B > 0 every extract is preceded by a
\* SetBatch on the handler, and the k-th extract runs with limit B and
\* offset (k-1)*B; SetBatch comes before the Command of the same batch.
C1_SetBatchBeforeEveryExtract ==
    CleanBatchedRun =>
        /\ \A i \in 1..Len(mainCalls) :
               mainCalls[i].op = "ExtCmd" =>
                   i > 1 /\ mainCalls[i - 1].op = "SetBatch"
        /\ \A k \in 1..Len(extLog) :
               /\ extLog[k].flag
               /\ extLog[k].limit = batchSize
               /\ extLog[k].offset = (k - 1) * batchSize

\* C2 (as claimed): when a batched Exec with B > 0 over N rows has returned
\* and no handler call failed, ceil(N/B) extract calls yielded rows, the final
\* call observed zero rows, and every row was handed to Load exactly once.
C2_ExtractCountAndRowsLoaded ==
    (CleanBatchedRun /\ pc = "done") =>
        /\ Cardinality(ExtractsOK) = CeilDiv(nRows, batchSize)
        /\ RowCount(extLog[Len(extLog)]) = 0
        /\ \A i \in RowIds : rowLoads[i] = (IF i < nRows THEN 1 ELSE 0)

\* C3 (as claimed): the batched loop is left as soon as an extract yields no
\* data, reported by an error or by an empty row sequence with a nil error:
\* Exec never goes on to dispatch a worker after an extract without rows.
C3_NoDataEndsLoop ==
    (BatchedRun /\ pc \in {"spawn", "send", "flashLock", "flashBody"}) =>
        RowCount(extLog[Len(extLog)]) > 0

\* C4 (as claimed): the transform+load workers started and not yet finished
\* never outnumber runtime.NumCPU().
C4_WorkersBoundedByNumCPU ==
    CleanBatchedRun => Cardinality(Running) <= numCPU

\* C5: when a batched Exec has returned, every dispatched worker has
\* finished, the finished workers are the dispatched ones, one per successful
\* extract, and so no worker is running when Close runs.
C5_ExecReturnsAfterWorkers ==
    (batchCtl = "enable" /\ pc \in {"done", "closed"}) =>
        /\ Finished = Spawned
        /\ Cardinality(Spawned) = Cardinality(ExtractsOK)
        /\ wg = 0

C5_Witness ==
    /\ batchCtl = "enable"
    /\ pc = "closed"
    /\ Cardinality(Finished) >= 2

\* C6: at most one extract call is in flight at any moment, and one is in
\* flight exactly while Exec is between the handler's Command and the return
\* of its Query; this holds while workers of earlier batches run.
C6_ExtractSequential ==
    /\ ExtractsInFlight \in {0, 1}
    /\ ExtractsInFlight = 1 <=> pc = "extQuery"

C6_Witness ==
    /\ batchCtl = "enable"
    /\ pc = "extQuery"
    /\ Len(extLog) >= 1
    /\ Running # {}

\* C7 (as claimed): with SetBatchSize called concurrently, every extract
\* that follows a FlashBatch runs with exactly the cursor that FlashBatch
\* set, and consecutive batched extracts cover adjacent offset ranges.
C7_CursorAndExtractAtomic ==
    CleanBatchedRun =>
        /\ \A i \in 2..Len(mainCalls) :
               (mainCalls[i].op = "ExtCmd" /\ mainCalls[i - 1].op = "SetBatch") =>
                   /\ mainCalls[i].a = mainCalls[i - 1].a
                   /\ mainCalls[i].b = mainCalls[i - 1].b
        /\ \A k \in 2..(Len(extLog) - 1) :
               extLog[k + 1].offset = extLog[k].offset + extLog[k].limit

\* C8 (as claimed): the cursor is written only with batchMutex held, and no
\* other Transaction field has two goroutines at an unsynchronised write of
\* it at the same time.
C8_OnlyCursorShared ==
    CleanBatchedRun =>
        /\ pc = "flashBody" => batchMutex = "exec"
        /\ spc = "body" => batchMutex = "caller"
        /\ Cardinality({g \in Procs : wpc[g] = "tStore"}) <= 1

Phases == <<"ExtCmd", "ExtQuery", "TransCmd", "TransExec", "LoadCmd", "Load">>

\* C10: single-shot Exec calls extract, transform (on the extracted rows) and
\* load (on the transform's results) in that order, each at most once; an
\* error of a phase is the last call made and is what Exec returns; Exec
\* returns nil only after all three phases succeeded.
C10_SingleShotPhases ==
    SingleShot =>
        /\ Len(mainCalls) <= Len(Phases)
        /\ \A i \in 1..Len(mainCalls) :
               /\ mainCalls[i].op = Phases[i]
               /\ mainCalls[i].err # "nil" => i = Len(mainCalls)
               /\ mainCalls[i].op = "TransExec" => mainCalls[i].a = extractResults
               /\ mainCalls[i].op = "Load" => mainCalls[i].a = wrows[0]
        /\ pc = "done" =>
               /\ mainCalls # <<>>
               /\ retErr = mainCalls[Len(mainCalls)].err
               /\ retErr = "nil" => Len(mainCalls) = Len(Phases)

C10_Witness ==
    /\ SingleShot
    /\ pc = "done"
    /\ retErr = "TransCmdErr"
    /\ Len(mainCalls) = 3

\* The extract calls of a batched run (B > 0) over n rows whose handler ends
\* the data by an error and never fails: the unbatched first call, then one
\* call per offset B, 2B, ... up to the first offset at or past n.
CleanExtractCalls(n, b) == IF n = 0 THEN 1 ELSE 1 + CeilDiv(n, b)

\* C11: a batched Exec never returns anything but nil, whether the extract
\* handler failed or a worker's transform or load failed; a worker's error
\* leaves the extraction and the other workers as they would have been: when
\* Exec has returned, the extract calls are those of the data source and
\* every dispatched worker has run to its end.
C11_BatchedExecReturnsNil ==
    batchCtl = "enable" =>
        /\ retErr \in {"none", "nil"}
        /\ pc \in {"done", "closed"} => retErr = "nil"
        /\ (pc \in {"done", "closed"} /\ batchSize > 0 /\ eod = "error"
                /\ ExtractFaultFree) =>
               /\ Len(extLog) = CleanExtractCalls(nRows, batchSize)
               /\ Finished = Spawned
               /\ Cardinality(Spawned) = Cardinality(ExtractsOK)

C11_Witness ==
    /\ batchCtl = "enable"
    /\ pc = "done"
    /\ retErr = "nil"
    /\ ExtractFaultFree
    /\ \E g, h \in Workers :
           /\ g < h
           /\ werr[g] \in {"TransCmdErr", "TransExecErr", "LoadCmdErr", "LoadErr"}
           /\ wpc[h] = "finished"
           /\ werr[h] = "nil"
           /\ loadCount[wrows[h]] = 1

\* C11, second case: the extract handler's own error ends the loop and Exec
\* still returns nil.
C11_WitnessExtractError ==
    /\ batchCtl = "enable"
    /\ pc = "done"
    /\ retErr = "nil"
    /\ extLog[Len(extLog)].err = "ExtQueryErr"

\* ================================================================
\* The handles of a Transaction over the calls of its owner: which
\* handler each public method invokes an operation on.  One goroutine makes
\* the calls, one after the other.
\* ================================================================

\* A handle as a driver factory returns it: never closed, never used after
\* its Close.
NewHandle(d) == [phase |-> d, closes |-> 0, late |-> FALSE, cerr |-> "none"]

\* handler, err := driver.Open(name, dataSource); t.xHandler = handler.
\* The factory returns a handle and nil, or no handle and an error; the
\* field is assigned in both cases.
OpenHandler(d, outcome) ==
    /\ lhandles' = (IF outcome = "ok" THEN Append(lhandles, NewHandle(d))
                    ELSE lhandles)
    /\ lcur' = [lcur EXCEPT ![d] = IF outcome = "ok" THEN Len(lhandles) + 1
                                   ELSE NoHandler]

PublicCall ==
    /\ lpc \in {"ready", "closed"}
    /\ lcalls < MaxLifeCalls
    /\ lcalls' = lcalls + 1

\* The call returned: the result of an earlier Close is history.
Returned == lpc' = "ready"

\* func (t *Transaction) ExtractOpen(etype, name, dataSource string) error
ExtractOpen ==
    /\ PublicCall
    /\ \E args \in {"given", "empty"}, outcome \in {"ok", "err"} :
          IF args = "empty"
          THEN outcome = "err" /\ UNCHANGED <<lhandles, lcur>>
          ELSE OpenHandler("extract", outcome)
    /\ Returned
    /\ UNCHANGED <<execVars, tableVars, regVars, fnVars, errSlice, lcloses>>

\* func (t *Transaction) TransformOpen(ttype, name, dataSource string) error
TransformOpen ==
    /\ PublicCall
    /\ \E outcome \in {"ok", "err"} : OpenHandler("transform", outcome)
    /\ Returned
    /\ UNCHANGED <<execVars, tableVars, regVars, fnVars, errSlice, lcloses>>

\* func (t *Transaction) LoadOpen(ltype, name, dataSource string) error
LoadOpen ==
    /\ PublicCall
    /\ \E outcome \in {"ok", "err"} : OpenHandler("load", outcome)
    /\ Returned
    /\ UNCHANGED <<execVars, tableVars, regVars, fnVars, errSlice, lcloses>>

\* An operation invoked on each handle of S: a handle whose Close was
\* already called is used after its release.
Touch(hs, S) ==
    [i \in DOMAIN hs |->
        IF i \in S THEN [hs[i] EXCEPT !.late = @ \/ hs[i].closes > 0]
        ELSE hs[i]]

\* The first of the phases 1..k whose handler field is nil, 0 if none is.
FirstNil(k) ==
    IF \E i \in 1..k : lcur[Handles[i]] = NoHandler
    THEN CHOOSE i \in 1..k :
            /\ lcur[Handles[i]] = NoHandler
            /\ \A j \in 1..(i - 1) : lcur[Handles[j]] # NoHandler
    ELSE 0

\* A method invokes operations on the handlers of the phases 1..k in this
\* order, with no check of the fields: a call on a nil handler panics.
Invoke(k) ==
    LET f == FirstNil(k)
        n == IF f = 0 THEN k ELSE f - 1
    IN  /\ lhandles' = Touch(lhandles, {lcur[Handles[i]] : i \in 1..n})
        /\ (IF f = 0 THEN Returned ELSE lpc' = "panic")

\* func (t *Transaction) Exec() error: Command and Query on the extract
\* handler; when it returned rows, Command and Exec on the transform
\* handler; when that returned results, Command and Load on the load handler.
ExecCall ==
    /\ PublicCall
    /\ \E k \in 1..3 : Invoke(k)
    /\ UNCHANGED <<execVars, tableVars, regVars, fnVars, lcur, errSlice, lcloses>>

\* func (t *Transaction) FlashBatch(): t.extractHandler.SetBatch
FlashBatchCall ==
    /\ PublicCall
    /\ Invoke(1)
    /\ UNCHANGED <<execVars, tableVars, regVars, fnVars, lcur, errSlice, lcloses>>

\* func (t *Transaction) SetBatchSize(batch int64): t.extractHandler.SetBatch
SetBatchSizeCall ==
    /\ PublicCall
    /\ Invoke(1)
    /\ UNCHANGED <<execVars, tableVars, regVars, fnVars, lcur, errSlice, lcloses>>

\* err := t.xHandler.Close(); errSlice = append(errSlice, err)
CloseHandle(i, slice, next) ==
    LET h == lcur[Handles[i]] IN
    IF h = NoHandler
    THEN /\ lpc' = "panic"
         /\ errSlice' = slice
         /\ UNCHANGED lhandles
    ELSE \E e \in {"nil", "CloseErr"} :
            /\ lhandles' = [Touch(lhandles, {h}) EXCEPT
                               ![h].closes = @ + 1, ![h].cerr = e]
            /\ errSlice' = Append(slice, e)
            /\ lpc' = next

extractCloseReturnsEarly ==
    /\ lpc \in {"ready", "closed"}
    /\ lcloses < MaxCloses
    /\ lcloses' = lcloses + 1
    /\ LET h == lcur["extract"] IN
       IF h = NoHandler
       THEN lpc' = "panic" /\ errSlice' = <<>> /\ UNCHANGED lhandles
       ELSE \E e \in {"nil", "CloseErr"} :
               /\ lhandles' = [Touch(lhandles, {h}) EXCEPT
                                  ![h].closes = @ + 1, ![h].cerr = e]
               /\ errSlice' = <<e>>
               /\ lpc' = (IF e = "nil" THEN "closeT" ELSE "closed")
    /\ UNCHANGED <<execVars, tableVars, regVars, fnVars, lcur, lcalls>>

\* Close: errSlice := []error{}; err := t.extractClose(); append
extractClose ==
    /\ lpc \in {"ready", "closed"}
    /\ lcloses < MaxCloses
    /\ lcloses' = lcloses + 1
    /\ CloseHandle(1, <<>>, "closeT")
    /\ UNCHANGED <<execVars, tableVars, regVars, fnVars, lcur, lcalls>>

\* Close: err = t.transformClose(); append
transformClose ==
    /\ lpc = "closeT"
    /\ CloseHandle(2, errSlice, "closeL")
    /\ UNCHANGED <<execVars, tableVars, regVars, fnVars, lcur, lcalls, lcloses>>

\* Close: err = t.loadClose(); append; return errSlice
loadClose ==
    /\ lpc = "closeL"
    /\ CloseHandle(3, errSlice, "closed")
    /\ UNCHANGED <<execVars, tableVars, regVars, fnVars, lcur, lcalls, lcloses>>

\* A Transaction fresh from Open, in the hands of its owner.
NoRun ==
    /\ ExecInit
    /\ batchCtl = "disable"
    /\ batchSize = 0
    /\ limit = 0
    /\ nRows = 0
    /\ eod = "error"
    /\ numCPU = 1

LifeInit ==
    /\ NoRun
    /\ LifeIdle
    /\ RegIdle
    /\ FnIdle
    /\ NewTable

LifeNext ==
    \/ ExtractOpen
    \/ TransformOpen
    \/ LoadOpen
    \/ ExecCall
    \/ FlashBatchCall
    \/ SetBatchSizeCall
    \/ extractClose
    \/ transformClose
    \/ loadClose

SpecLife == LifeInit /\ [][LifeNext]_vars

\* The handler fields all hold a handle a factory returned.
AllOpened == \A d \in Domains : lcur[d] # NoHandler

\* C12: when Close returns, its result has exactly three slots, in the
\* order extract, transform, load, each the error its own handle's Close
\* returned in this call, whatever the earlier slots hold; and once the
\* extract handle is closed, with or without an error, Close is on its way to
\* the transform handle, then to the load handle.
C12_CloseReturnsThreeSlots ==
    /\ lpc = "closed" =>
          /\ Len(errSlice) = 3
          /\ \A i \in 1..3 :
                /\ lcur[Handles[i]] # NoHandler
                /\ lhandles[lcur[Handles[i]]].phase = Handles[i]
                /\ lhandles[lcur[Handles[i]]].closes >= 1
                /\ errSlice[i] = lhandles[lcur[Handles[i]]].cerr
    /\ lpc = "closeT" => Len(errSlice) = 1
    /\ lpc = "closeL" => Len(errSlice) = 2
    /\ (lpc \in {"closeT", "closeL", "closed"} /\ lcloses = 1) =>
          \A i \in 1..Len(errSlice) : lhandles[lcur[Handles[i]]].closes = 1
    /\ (lpc = "panic" /\ Len(errSlice) > 0) => ~AllOpened

C12_Witness ==
    /\ lpc = "closed"
    /\ lcloses = 1
    /\ errSlice[1] = "CloseErr"
    /\ errSlice[2] = "nil"
    /\ errSlice[3] = "CloseErr"
    /\ \A i \in 1..3 : lhandles[lcur[Handles[i]]].closes = 1

\* C13: for every order of the owner's calls, a method invokes a handler
\* operation only on a handle that was opened (never on a nil handler), and
\* no operation, a second Close included, is invoked on a handle after its
\* Close.
C13_LifecycleEnforced ==
    /\ lpc # "panic"
    /\ \A i \in DOMAIN lhandles :
          /\ ~lhandles[i].late
          /\ lhandles[i].closes <= 1

\* C14: once the one Close of a Transaction has returned, every handle its
\* factories returned, in whatever order and however often the opens were
\* called, has had Close called on it exactly once.
C14_EveryHandleClosedOnce ==
    (lpc = "closed" /\ lcloses = 1) =>
        \A i \in DOMAIN lhandles : lhandles[i].closes = 1

\* ================================================================
\* The driver registry: drivers.Extract, drivers.Transform, drivers.Load,
\* each a map from a name to a factory (NoDriver: the name is not a key).
\* ================================================================

RegisterOverwrites(d, n, f) ==
    IF f = NoDriver
    THEN [result |-> "panic", drivers |-> drivers]
    ELSE [result |-> "ok", drivers |-> [drivers EXCEPT ![d][n] = f]]

\* The body shared by ExtractRegister, TransformRegister and LoadRegister,
\* for the map d: panic on a nil driver, panic on a name that is a key of
\* the map, else drivers.d[name] = driver.
Register(d, n, f) ==
    IF f = NoDriver
    THEN [result |-> "panic", drivers |-> drivers]
    ELSE IF drivers[d][n] # NoDriver
    THEN [result |-> "panic", drivers |-> drivers]
    ELSE [result |-> "ok", drivers |-> [drivers EXCEPT ![d][n] = f]]

RegisterCall(d) ==
    /\ \E n \in RegNames, f \in Factories \cup {NoDriver} :
          LET r == Register(d, n, f) IN
          /\ drivers' = r.drivers
          /\ regOut' = [op |-> "Register", domain |-> d, name |-> n,
                        factory |-> f, result |-> r.result,
                        before |-> drivers]
    /\ UNCHANGED <<execVars, tableVars, lifeVars, fnVars>>

\* func ExtractRegister(name string, driver driver.ExtractDriver)
ExtractRegister ==
    /\ regCalls < MaxRegCalls
    /\ regCalls' = regCalls + 1
    /\ RegisterCall("extract")

\* func TransformRegister(name string, driver driver.TransformDriver)
TransformRegister ==
    /\ regCalls < MaxRegCalls
    /\ regCalls' = regCalls + 1
    /\ RegisterCall("transform")

\* func LoadRegister(name string, driver driver.LoadDriver)
LoadRegister ==
    /\ regCalls < MaxRegCalls
    /\ regCalls' = regCalls + 1
    /\ RegisterCall("load")

NoTransaction == [extract |-> NoDriver, transform |-> NoDriver, load |-> NoDriver]

OpenAnyDomain(e, t, l) ==
    LET known(n) == \E d \in Domains : drivers[d][n] # NoDriver
        any(n) == drivers[CHOOSE d \in Domains : drivers[d][n] # NoDriver][n]
    IN  IF ~known(e) THEN [result |-> "errExtract", tx |-> NoTransaction]
        ELSE IF ~known(t) THEN [result |-> "errTransform", tx |-> NoTransaction]
        ELSE IF ~known(l) THEN [result |-> "errLoad", tx |-> NoTransaction]
        ELSE [result |-> "ok",
              tx |-> [extract |-> any(e), transform |-> any(t), load |-> any(l)]]

\* func Open(eName, tName, lName string) (*Transaction, error): the three
\* lookups in this order, each returning nil and its error when the name is
\* not a key; then the Transaction with the three drivers found.
Open(e, t, l) ==
    IF drivers["extract"][e] = NoDriver
    THEN [result |-> "errExtract", tx |-> NoTransaction]
    ELSE IF drivers["transform"][t] = NoDriver
    THEN [result |-> "errTransform", tx |-> NoTransaction]
    ELSE IF drivers["load"][l] = NoDriver
    THEN [result |-> "errLoad", tx |-> NoTransaction]
    ELSE [result |-> "ok",
          tx |-> [extract |-> drivers["extract"][e],
                  transform |-> drivers["transform"][t],
                  load |-> drivers["load"][l]]]

OpenCall ==
    /\ regCalls < MaxRegCalls
    /\ regCalls' = regCalls + 1
    /\ \E e \in RegNames, t \in RegNames, l \in RegNames :
          LET r == Open(e, t, l) IN
          regOut' = [op |-> "Open", eName |-> e, tName |-> t, lName |-> l,
                     result |-> r.result, tx |-> r.tx, before |-> drivers]
    /\ UNCHANGED <<execVars, tableVars, lifeVars, fnVars, drivers>>

RegInit == LifeInit

RegNext ==
    \/ ExtractRegister
    \/ TransformRegister
    \/ LoadRegister
    \/ OpenCall

SpecReg == RegInit /\ [][RegNext]_vars

\* C15: a Register call panics exactly when its factory is nil or its name
\* is already a key of its own domain, and then the registry is as before
\* (the earlier factory stays); otherwise the registry differs from the one
\* before in exactly the new mapping name -> factory of that domain.
C15_RegisterPanicsOnNilOrDuplicate ==
    regOut.op = "Register" =>
        LET b == regOut.before
            d == regOut.domain
            n == regOut.name
            f == regOut.factory
        IN  /\ regOut.result = "panic" <=> (f = NoDriver \/ b[d][n] # NoDriver)
            /\ regOut.result = "panic" => drivers = b
            /\ regOut.result # "panic" =>
                  /\ drivers[d][n] = f
                  /\ \A d2 \in Domains, n2 \in RegNames :
                        <<d2, n2>> # <<d, n>> => drivers[d2][n2] = b[d2][n2]

C15_Witness ==
    /\ regOut.op = "Register"
    /\ regOut.result = "panic"
    /\ regOut.factory # NoDriver
    /\ drivers[regOut.domain][regOut.name] \notin {NoDriver, regOut.factory}
    /\ \E d \in Domains \ {regOut.domain} : drivers[d][regOut.name] = NoDriver

\* C16: Open succeeds exactly when each name is a key of its own domain,
\* and then the Transaction holds the factories registered under them; with
\* a name missing it returns no Transaction and the error of the first
\* missing domain in the order extract, transform, load; it never panics and
\* leaves the registry as it was.
C16_OpenIffAllRegistered ==
    regOut.op = "Open" =>
        LET b == regOut.before
            hasE == b["extract"][regOut.eName] # NoDriver
            hasT == b["transform"][regOut.tName] # NoDriver
            hasL == b["load"][regOut.lName] # NoDriver
        IN  /\ regOut.result \in {"ok", "errExtract", "errTransform", "errLoad"}
            /\ regOut.result = "ok" <=> (hasE /\ hasT /\ hasL)
            /\ regOut.result = "ok" =>
                  /\ regOut.tx.extract = b["extract"][regOut.eName]
                  /\ regOut.tx.transform = b["transform"][regOut.tName]
                  /\ regOut.tx.load = b["load"][regOut.lName]
            /\ regOut.result # "ok" => regOut.tx = NoTransaction
            /\ regOut.result = "errExtract" <=> ~hasE
            /\ regOut.result = "errTransform" <=> (hasE /\ ~hasT)
            /\ regOut.result = "errLoad" <=> (hasE /\ hasT /\ ~hasL)
            /\ drivers = b

C16_Witness ==
    /\ regOut.op = "Open"
    /\ regOut.result = "errTransform"
    /\ drivers["extract"][regOut.tName] # NoDriver
    /\ drivers["load"][regOut.tName] # NoDriver

\* C16, the successful case: the three factories bound are those of the
\* three domains, which differ under one name.
C16_WitnessBound ==
    /\ regOut.op = "Open"
    /\ regOut.result = "ok"
    /\ regOut.eName = regOut.tName
    /\ regOut.tx.extract # regOut.tx.transform

\* ================================================================
\* Package driver: the conversions from interface{}.
\* A string is the sequence of its characters; a float64 is num * 10^exp,
\* or NaN, or an infinity.
\* ================================================================

\* Values of type interface{}, by dynamic type.
Nil == [k |-> "nil"]
GoBool(b) == [k |-> "bool", b |-> b]
GoInt(i) == [k |-> "int", i |-> i]
GoInt64(i) == [k |-> "int64", i |-> i]
GoInt32(i) == [k |-> "int32", i |-> i]
GoFloat64(f) == [k |-> "float64", f |-> f]
GoFloat32(f) == [k |-> "float32", f |-> f]
GoString(s) == [k |-> "string", s |-> s]
GoArray == [k |-> "[]interface{}"]
GoMap == [k |-> "map[string]interface{}"]
\* a *[]interface{} pointing to arr
GoArrayPtr(arr) == [k |-> "*[]interface{}", elem |-> arr]
\* the map json.Unmarshal builds from the JSON text s; the nil map
GoMapOfJSON(s) == [k |-> "map[string]interface{}", json |-> s]
GoNilMap == [k |-> "map[string]interface{}", nil |-> TRUE]
\* the empty slice and the empty map the conversions return with an error
GoEmptyArray == [k |-> "[]interface{}", len |-> 0]
GoEmptyMap == [k |-> "map[string]interface{}", len |-> 0]

Finite(n, e) == [cls |-> "fin", num |-> n, exp |-> e]
NaN == [cls |-> "nan", num |-> 0, exp |-> 0]
Inf(sign) == [cls |-> "inf", num |-> sign, exp |-> 0]
Tenths(t) == Finite(t, 0 - 1)

DigitChars == <<"0", "1", "2", "3", "4", "5", "6", "7", "8", "9">>
IsDigit(c) == \E i \in 1..10 : DigitChars[i] = c
DigitVal(c) == (CHOOSE i \in 1..10 : DigitChars[i] = c) - 1

UpperChars == <<"A", "B", "C", "D", "E", "F", "G", "H", "I", "J", "K", "L", "M",
                "N", "O", "P", "Q", "R", "S", "T", "U", "V", "W", "X", "Y", "Z">>
LowerChars == <<"a", "b", "c", "d", "e", "f", "g", "h", "i", "j", "k", "l", "m",
                "n", "o", "p", "q", "r", "s", "t", "u", "v", "w", "x", "y", "z">>

\* strings.ToLower, character by character
ToLowerChar(c) ==
    IF \E i \in 1..26 : UpperChars[i] = c
    THEN LowerChars[CHOOSE i \in 1..26 : UpperChars[i] = c]
    ELSE c
ToLower(s) == [i \in 1..Len(s) |-> ToLowerChar(s[i])]

Max(S) == CHOOSE x \in S : \A y \in S : y <= x

RECURSIVE Pow10(_)
Pow10(n) == IF n <= 0 THEN 1 ELSE 10 * Pow10(n - 1)

\* The number of digits of s from position i on.
SpanDigits(s, i) ==
    Max({j \in i..(Len(s) + 1) : \A k \in i..(j - 1) : IsDigit(s[k])}) - i

\* The number the n digits of s from position i on denote.
RECURSIVE DigitsVal(_, _, _)
DigitsVal(s, i, n) ==
    IF n = 0 THEN 0 ELSE DigitsVal(s, i, n - 1) * 10 + DigitVal(s[i + n - 1])

Signed(s) == Len(s) >= 1 /\ s[1] \in {"+", "-"}
SignOf(s) == IF Len(s) >= 1 /\ s[1] = "-" THEN 0 - 1 ELSE 1

\* strconv.ParseInt(s, 10, 64): an optional sign and one digit or more.
StrconvParseInt(s) ==
    LET p == IF Signed(s) THEN 2 ELSE 1
        n == SpanDigits(s, p)
    IN  IF n > 0 /\ p + n = Len(s) + 1
        THEN [ok |-> TRUE, i |-> SignOf(s) * DigitsVal(s, p, n)]
        ELSE [ok |-> FALSE, i |-> 0]

\* strconv.ParseFloat(s, 64): "NaN", a signed "Inf" or "Infinity" in any
\* case, or a decimal numeral: sign, digits with an optional point, an
\* optional exponent.
StrconvParseFloat(s) ==
    LET low == ToLower(s)
        p1 == IF Signed(s) THEN 2 ELSE 1
        n1 == SpanDigits(s, p1)
        p2 == p1 + n1
        dot == p2 <= Len(s) /\ s[p2] = "."
        n2 == IF dot THEN SpanDigits(s, p2 + 1) ELSE 0
        p3 == IF dot THEN p2 + 1 + n2 ELSE p2
        hasExp == p3 <= Len(s) /\ low[p3] = "e"
        erest == SubSeq(s, p3 + 1, Len(s))
        e == StrconvParseInt(erest)
        mant == DigitsVal(s, p1, n1) * Pow10(n2)
                  + (IF dot THEN DigitsVal(s, p2 + 1, n2) ELSE 0)
        fail == [ok |-> FALSE, v |-> Finite(0, 0)]
    IN  IF low = <<"n", "a", "n">> THEN [ok |-> TRUE, v |-> NaN]
        ELSE IF SubSeq(low, p1, Len(s)) \in
                  {<<"i", "n", "f">>, <<"i", "n", "f", "i", "n", "i", "t", "y">>}
        THEN [ok |-> TRUE, v |-> Inf(SignOf(s))]
        ELSE IF n1 + n2 = 0 THEN fail
        ELSE IF hasExp
        THEN IF e.ok THEN [ok |-> TRUE, v |-> Finite(SignOf(s) * mant, e.i - n2)]
             ELSE fail
        ELSE IF p3 = Len(s) + 1
        THEN [ok |-> TRUE, v |-> Finite(SignOf(s) * mant, 0 - n2)]
        ELSE fail

\* strings.Replace(str, ",", "", -1)
RECURSIVE RemoveCommas(_)
RemoveCommas(s) ==
    IF s = <<>> THEN <<>>
    ELSE IF Head(s) = "," THEN RemoveCommas(Tail(s))
    ELSE <<Head(s)>> \o RemoveCommas(Tail(s))

\* baseVal * math.Pow10(int(expVal))
TimesPow10(v, n) == IF v.cls = "fin" THEN Finite(v.num, v.exp + n) ELSE v

\* func ParseFloat(str string) (float64, error)
ParseFloat(str) ==
    LET first == StrconvParseFloat(str)
        bare == RemoveCommas(str)
        es == {i \in 1..Len(bare) : bare[i] \in {"e", "E"}}
        pos == CHOOSE i \in es : \A j \in es : i <= j
        base == StrconvParseFloat(SubSeq(bare, 1, pos - 1))
        ex == StrconvParseInt(SubSeq(bare, pos + 1, Len(bare)))
    IN  IF first.ok THEN first
        ELSE IF es = {} THEN StrconvParseFloat(bare)
        ELSE IF ~base.ok THEN base
        ELSE IF ~ex.ok THEN [ok |-> FALSE, v |-> Finite(0, 0)]
        ELSE [ok |-> TRUE, v |-> TimesPow10(base.v, ex.i)]

\* Integer division rounding toward zero (b > 0).
TruncDiv(a, b) == IF a >= 0 THEN a \div b ELSE 0 - ((0 - a) \div b)

\* fval + 0.5 (half = 1) and fval - 0.5 (half = -1)
AddHalf(v, half) ==
    IF v.cls # "fin" THEN v
    ELSE IF v.exp >= 0 THEN Finite(v.num * Pow10(v.exp + 1) + 5 * half, 0 - 1)
    ELSE Finite(v.num + 5 * half * Pow10(0 - v.exp - 1), v.exp)

\* An int64 a conversion returns: val, or with sat set the least ("min") or
\* greatest ("max") int64.
Int64(i) == [val |-> i, sat |-> "no"]

\* The conversion int64(f).  For a finite f it discards the fraction; for
\* NaN and the infinities the language leaves the result to the
\* implementation: the least int64 on amd64, 0 or a saturated value on arm64.
Int64OfFloat(v) ==
    IF v.cls = "nan" THEN {[val |-> 0, sat |-> "min"], Int64(0)}
    ELSE IF v.cls = "inf"
    THEN {[val |-> 0, sat |-> "min"],
          [val |-> 0, sat |-> IF v.num > 0 THEN "max" ELSE "min"]}
    ELSE IF v.exp >= 0 THEN {Int64(v.num * Pow10(v.exp))}
    ELSE {Int64(TruncDiv(v.num, Pow10(0 - v.exp)))}

IntOk(o) == [err |-> FALSE, val |-> o.val, sat |-> o.sat]
IntErr == [err |-> TRUE, val |-> 0, sat |-> "no"]

\* func IntFromInterface(val interface{}) (int64, error): the results it
\* can return.
IntFromInterface(val) ==
    IF val.k = "nil" THEN {IntErr}
    ELSE IF val.k = "float64"
    THEN LET half == IF val.f.cls = "fin" /\ val.f.num >= 0 THEN 1 ELSE 0 - 1
         IN  {IntOk(o) : o \in Int64OfFloat(AddHalf(val.f, half))}
    ELSE IF val.k \in {"int64", "int"} THEN {IntOk(Int64(val.i))}
    ELSE IF val.k = "string" /\ ParseFloat(val.s).ok
    THEN {IntOk(o) : o \in Int64OfFloat(ParseFloat(val.s).v)}
    ELSE {IntErr}

BoolOk(b) == [err |-> FALSE, b |-> b]
BoolErr == [err |-> TRUE, b |-> FALSE]

\* The characters U+662F, U+5426 and U+4E0D are written by their code points.
TrueTokens == {<<"1">>, <<"t", "r", "u", "e">>, <<"t">>, <<"y">>,
               <<"y", "e", "s">>, <<"U+662F">>}
FalseTokens == {<<"0">>, <<"f", "a", "l", "s", "e">>, <<"f">>, <<"n">>,
                <<"n", "o">>, <<"U+5426">>, <<"U+4E0D", "U+662F">>}

\* func BoolFromInterface(val interface{}) (bool, error), src/driver/types.go:
\* the copy StrToType of that file calls.
BoolFromInterfaceTokens(val) ==
    IF val.k = "nil" THEN BoolErr
    ELSE IF val.k = "bool" THEN BoolOk(val.b)
    ELSE IF val.k = "string" /\ ToLower(val.s) \in TrueTokens THEN BoolOk(TRUE)
    ELSE IF val.k = "string" /\ ToLower(val.s) \in FalseTokens THEN BoolOk(FALSE)
    ELSE BoolErr

\* func BoolFromInterface(val interface{}) (bool, error), src/unnamed/part_001:
\* a string is true when it is "true" and false otherwise.
BoolFromInterface(val) ==
    IF val.k = "nil" THEN BoolErr
    ELSE IF val.k = "bool" THEN BoolOk(val.b)
    ELSE IF val.k = "string"
    THEN IF val.s = <<"t", "r", "u", "e">> THEN BoolOk(TRUE) ELSE BoolOk(FALSE)
    ELSE BoolErr

\* func FloatFromInterface(val interface{}) (float64, error)
FloatFromInterface(val) ==
    IF val.k \in {"float64", "float32"} THEN [err |-> FALSE, f |-> val.f]
    ELSE IF val.k \in {"int", "int64"} THEN [err |-> FALSE, f |-> Finite(val.i, 0)]
    ELSE IF val.k = "string" /\ ParseFloat(val.s).ok
    THEN [err |-> FALSE, f |-> ParseFloat(val.s).v]
    ELSE [err |-> TRUE, f |-> Finite(0, 0)]

\* strconv.Itoa, strconv.FormatInt(i, 10)
RECURSIVE Itoa(_)
Itoa(n) ==
    IF n < 0 THEN <<"-">> \o Itoa(0 - n)
    ELSE IF n < 10 THEN <<DigitChars[n + 1]>>
    ELSE Itoa(n \div 10) \o <<DigitChars[(n % 10) + 1]>>

\* The w digits of the fraction r / 10^w without its trailing zeros.
RECURSIVE FracDigits(_, _)
FracDigits(r, w) ==
    IF r = 0 THEN <<>>
    ELSE <<DigitChars[(r \div Pow10(w - 1)) + 1]>>
            \o FracDigits(r % Pow10(w - 1), w - 1)

\* strconv.FormatFloat(f, 'f', -1, 64)
FormatFloat(v) ==
    IF v.cls = "nan" THEN <<"N", "a", "N">>
    ELSE IF v.cls = "inf"
    THEN <<IF v.num > 0 THEN "+" ELSE "-", "I", "n", "f">>
    ELSE IF v.exp >= 0 THEN Itoa(v.num * Pow10(v.exp))
    ELSE LET a == IF v.num < 0 THEN 0 - v.num ELSE v.num
             p == Pow10(0 - v.exp)
             fr == FracDigits(a % p, 0 - v.exp)
         IN  (IF v.num < 0 THEN <<"-">> ELSE <<>>) \o Itoa(a \div p)
                \o (IF fr = <<>> THEN <<>> ELSE <<".">> \o fr)

\* func StringFromInterface(val interface{}) (string, error), for the kinds
\* of GoValues.
StringFromInterface(val) ==
    IF val.k = "string" THEN [err |-> FALSE, s |-> val.s]
    ELSE IF val.k \in {"int", "int64"} THEN [err |-> FALSE, s |-> Itoa(val.i)]
    ELSE IF val.k \in {"float64", "float32"}
    THEN [err |-> FALSE, s |-> FormatFloat(val.f)]
    ELSE [err |-> TRUE, s |-> <<>>]

\* func ArrayFromInterface(val interface{}) ([]interface{}, error): a
\* []interface{} itself, what a *[]interface{} points to, and an error for
\* everything else, a string included.
ArrayFromInterface(val) ==
    IF val.k = "[]interface{}" THEN [err |-> FALSE, a |-> val]
    ELSE IF val.k = "*[]interface{}" THEN [err |-> FALSE, a |-> val.elem]
    ELSE [err |-> TRUE, a |-> GoEmptyArray]

\* The JSON texts among the strings tried: of an object, of an array, and
\* null.
JSONObjectTexts == {<<"{", "}">>, <<"{", "\"", "a", "\"", ":", "1", "}">>}
JSONArrayTexts == {<<"[", "]">>, <<"[", "1", "]">>, <<"[", "1", ",", "2", "]">>}
JSONNull == <<"n", "u", "l", "l">>

\* json.Unmarshal([]byte(s), &m) with m a map accepts the text of a JSON
\* object, and null, which sets m to nil.
IsJSONObject(s) == s \in JSONObjectTexts

\* func MapFromInterface(val interface{}) (map[string]interface{}, error)
MapFromInterface(val) ==
    IF val.k = "map[string]interface{}" THEN [err |-> FALSE, m |-> val]
    ELSE IF val.k = "string"
    THEN IF IsJSONObject(val.s) THEN [err |-> FALSE, m |-> GoMapOfJSON(val.s)]
         ELSE IF val.s = JSONNull THEN [err |-> FALSE, m |-> GoNilMap]
         ELSE [err |-> TRUE, m |-> GoEmptyMap]
    ELSE [err |-> TRUE, m |-> GoEmptyMap]

\* ------------------------------------------------ TimeFromInterface
\* A time.Time: the date a layout of year, month and day parses to, the
\* instant so many seconds after the Unix epoch, or the time.Now() the
\* conversion returns with an error.
GoTime(t) == [k |-> "time.Time", t |-> t]
Date(y, m, d) == [y |-> y, m |-> m, d |-> d]
Unix(sec) == [unix |-> sec]
Now == [now |-> TRUE]

\* strings.Index(s, sep) + 1: where sep first occurs in s, 0 if nowhere.
IndexOf(s, sep) ==
    LET at == {i \in 1..(Len(s) - Len(sep) + 1) :
                  SubSeq(s, i, i + Len(sep) - 1) = sep}
    IN  IF at = {} THEN 0 ELSE CHOOSE i \in at : \A j \in at : i <= j

\* strings.Split(s, sep), for a separator that is not empty
RECURSIVE Split(_, _)
Split(s, sep) ==
    LET i == IndexOf(s, sep)
    IN  IF i = 0 THEN <<s>>
        ELSE <<SubSeq(s, 1, i - 1)>> \o Split(SubSeq(s, i + Len(sep), Len(s)), sep)

\* regexp "[0-9]+c[0-9]+c[0-9]" matches somewhere in val
MatchesDate(val, c) ==
    \E i, j \in 1..Len(val) :
        /\ 1 < i /\ i + 1 < j /\ j < Len(val)
        /\ val[i] = c /\ val[j] = c
        /\ IsDigit(val[i - 1]) /\ IsDigit(val[j + 1])
        /\ \A k \in (i + 1)..(j - 1) : IsDigit(val[k])

\* func formatTime(val string, format string) (string, error)
formatTime(val) ==
    LET splitStr == IF MatchesDate(val, "-") THEN "-"
                    ELSE IF MatchesDate(val, "/") THEN "/"
                    ELSE IF MatchesDate(val, ".") THEN "."
                    ELSE ""
        items == Split(val, <<splitStr>>)
        joinStr == IF splitStr = "." THEN "-" ELSE splitStr
        pad(item) == IF Len(item) = 1 THEN <<"0">> \o item ELSE item
    IN  IF splitStr = "" THEN [err |-> FALSE, s |-> val]
        ELSE IF Len(items) # 3 THEN [err |-> TRUE, s |-> <<>>]
        ELSE [err |-> FALSE,
              s |-> items[1] \o <<joinStr>> \o pad(items[2])
                        \o <<joinStr>> \o pad(items[3])]

\* func splitTimeValueLayout(input string) (val, layout string)
splitTimeValueLayout(input) ==
    LET results == Split(input, <<":", ":">>)
    IN  IF Len(results) > 1 THEN [val |-> results[1], layout |-> results[2]]
        ELSE [val |-> results[1], layout |-> <<>>]

IsLeap(y) == y % 4 = 0 /\ (y % 100 # 0 \/ y % 400 = 0)
DaysIn(m, y) ==
    IF m = 2 THEN (IF IsLeap(y) THEN 29 ELSE 28)
    ELSE IF m \in {4, 6, 9, 11} THEN 30 ELSE 31

HasPrefix(s, p) == Len(s) >= Len(p) /\ SubSeq(s, 1, Len(p)) = p
Drop(s, n) == SubSeq(s, n + 1, Len(s))

\* getnum(value, fixed) of package time: the number of digits it takes
\* from the head of value, 0 when it fails.
GetNum(value, fixed) ==
    IF Len(value) = 0 \/ ~IsDigit(value[1]) THEN 0
    ELSE IF Len(value) = 1 \/ ~IsDigit(value[2])
    THEN (IF fixed THEN 0 ELSE 1)
    ELSE 2

\* time.ParseInLocation(layout, value, time.Local) for a layout made of
\* the year 2006, the months 01 and 1, the days 02 and 2 and other
\* characters that no layout element begins with: each element of the
\* layout takes its digits from the head of value, every other character
\* of the layout must be the next of value, nothing may be left of value,
\* and the month and the day must exist. t is the date so far.
RECURSIVE ParseLayout(_, _, _)
ParseLayout(layout, value, t) ==
    LET fail == [err |-> TRUE, t |-> Now]
        num(fixed, field, tok) ==
            LET n == GetNum(value, fixed)
            IN  IF n = 0 THEN fail
                ELSE ParseLayout(Drop(layout, tok), Drop(value, n),
                                 [t EXCEPT ![field] = DigitsVal(value, 1, n)])
    IN  IF layout = <<>>
        THEN IF value # <<>> \/ t.m < 1 \/ t.m > 12
                  \/ t.d < 1 \/ t.d > DaysIn(t.m, t.y)
             THEN fail ELSE [err |-> FALSE, t |-> GoTime(t)]
        ELSE IF HasPrefix(layout, <<"2", "0", "0", "6">>)
        THEN IF Len(value) < 4 \/ \E i \in 1..4 : ~IsDigit(value[i]) THEN fail
             ELSE ParseLayout(Drop(layout, 4), Drop(value, 4),
                              [t EXCEPT !.y = DigitsVal(value, 1, 4)])
        ELSE IF HasPrefix(layout, <<"0", "1">>) THEN num(TRUE, "m", 2)
        ELSE IF HasPrefix(layout, <<"0", "2">>) THEN num(TRUE, "d", 2)
        ELSE IF layout[1] = "1" THEN num(FALSE, "m", 1)
        ELSE IF layout[1] = "2" THEN num(FALSE, "d", 1)
        ELSE IF value # <<>> /\ value[1] = layout[1]
        THEN ParseLayout(Tail(layout), Tail(value), t)
        ELSE fail

ParseInLocation(layout, value) == ParseLayout(layout, value, Date(0, 1, 1))

\* func TimeFromInterface(val interface{}, layout string) (time.Time, error)
TimeFromInterface(val, layout) ==
    LET fail == [err |-> TRUE, t |-> GoTime(Now)] IN
    IF val.k = "nil" THEN fail
    ELSE IF val.k = "time.Time" THEN [err |-> FALSE, t |-> val]
    ELSE IF val.k = "int" THEN [err |-> FALSE, t |-> GoTime(Unix(val.i))]
    ELSE IF val.k = "string"
    THEN LET sp == splitTimeValueLayout(val.s)
             f == formatTime(sp.val)
         IN  IF sp.layout = <<>>
             THEN IF f.err THEN fail
                  ELSE LET p == ParseInLocation(layout, f.s)
                       IN  IF p.err THEN fail ELSE p
             ELSE LET p == ParseInLocation(sp.layout, sp.val)
                  IN  IF p.err THEN fail ELSE p
    ELSE fail

DefaultLayout == <<"2", "0", "0", "6", "-", "0", "1", "-", "0", "2">>

\* ------------------------------------------- ArrayToMap, MapToArray
\* A map[string]interface{} is the function from its keys to its values, a
\* []interface{} the sequence of its values.
ArrayToMapReversed(columns, contents) ==
    IF Len(columns) = 0 THEN [res |-> "error"]
    ELSE IF Len(columns) < Len(contents) THEN [res |-> "error"]
    ELSE IF Len(columns) > Len(contents) THEN [res |-> "panic"]
    ELSE [res |-> "ok",
          m |-> [key \in {columns[i] : i \in 1..Len(columns)} |->
                    LET last == Max({i \in 1..Len(columns) : columns[i] = key})
                    IN  contents[Len(columns) + 1 - last]]]

\* func ArrayToMap(columns []string, contents []interface{})
\*     (rslt map[string]interface{}, err error): result[key] =
\* contents[index] for each column in turn, which panics (index out of
\* range) at the first column that has no content.
ArrayToMap(columns, contents) ==
    IF Len(columns) = 0 THEN [res |-> "error"]
    ELSE IF Len(columns) < Len(contents) THEN [res |-> "error"]
    ELSE IF Len(columns) > Len(contents) THEN [res |-> "panic"]
    ELSE [res |-> "ok",
          m |-> [key \in {columns[i] : i \in 1..Len(columns)} |->
                    LET last == Max({i \in 1..Len(columns) : columns[i] = key})
                    IN  contents[last]]]

MapToArrayStrict(columns, contents) ==
    IF Len(columns) = 0 THEN [res |-> "error"]
    ELSE IF \E i \in 1..Len(columns) : columns[i] \notin DOMAIN contents
    THEN [res |-> "error"]
    ELSE [res |-> "ok",
          a |-> [i \in 1..Len(columns) |-> contents[columns[i]]],
          contents |-> contents]

\* func MapToArray(columns []string, contents map[string]interface{})
\*     (rslt []interface{}, err error), and contents as the call leaves it
MapToArray(columns, contents) ==
    IF Len(columns) = 0 THEN [res |-> "error"]
    ELSE [res |-> "ok",
          a |-> [i \in 1..Len(columns) |->
                    IF columns[i] \in DOMAIN contents
                    THEN contents[columns[i]] ELSE Nil],
          contents |-> contents]

\* A converted value: its dynamic type and the value itself.
Typed(kind, v) == [k |-> kind, v |-> v]
NoValue == Typed("nil", 0)
Converted(kind, v) == [err |-> FALSE, dst |-> Typed(kind, v)]
NotConverted == [err |-> TRUE, dst |-> NoValue]

\* GeometryFromInterface, BsonRegExFromInterface: a value of their type, or
\* an error.
OpaqueConversion(kind) == {Converted(kind, 0), NotConverted}

\* func StrToType(typeStr string, src interface{}, layout ...string)
\*     (dst interface{}, err error): the results it can return.
StrToType(typeStr, src) ==
    IF typeStr = "int"
    THEN {IF r.err THEN NotConverted ELSE Converted("int64", [val |-> r.val, sat |-> r.sat]) :
             r \in IntFromInterface(src)}
    ELSE IF typeStr = "string"
    THEN LET r == StringFromInterface(src)
         IN  {IF r.err THEN NotConverted ELSE Converted("string", r.s)}
    ELSE IF typeStr = "float"
    THEN LET r == FloatFromInterface(src)
         IN  {IF r.err THEN NotConverted ELSE Converted("float64", r.f)}
    ELSE IF typeStr \in {"list", "array"}
    THEN LET r == ArrayFromInterface(src)
         IN  {IF r.err THEN NotConverted ELSE Converted("[]interface{}", r.a)}
    ELSE IF typeStr = "map"
    THEN LET r == MapFromInterface(src)
         IN  {IF r.err THEN NotConverted
              ELSE Converted("map[string]interface{}", r.m)}
    ELSE IF typeStr = "time"
    THEN LET r == TimeFromInterface(src, DefaultLayout)
         IN  {IF r.err THEN NotConverted ELSE Converted("time.Time", r.t.t)}
    ELSE IF typeStr = "geometry" THEN OpaqueConversion("Geometry")
    ELSE IF typeStr = "bool"
    THEN LET r == BoolFromInterfaceTokens(src)
         IN  {IF r.err THEN NotConverted ELSE Converted("bool", r.b)}
    ELSE IF typeStr = "bson.RegEx" THEN OpaqueConversion("bson.RegEx")
    ELSE IF typeStr \in {"json", "jsonarray"} THEN {Converted("[]byte", 0)}
    ELSE {NotConverted}

\* --------------------------------------------- Command.UnmarshalJSON
\* The JSON value under the key "value" of a command object: absent (no
\* key, or null), a number, a string, a boolean, an array of numbers, an
\* object, or an array of command objects.
JAbsent == [j |-> "absent"]
JNum(f) == [j |-> "number", f |-> f]
JStr(str) == [j |-> "string", s |-> str]
JBool(b) == [j |-> "bool", b |-> b]
JArr == [j |-> "array"]
JObj == [j |-> "object"]
JCmds(items) == [j |-> "commands", items |-> items]

\* A command object {"name": n, "type": t, "value": v}.
CmdObject(n, t, v) == [name |-> n, type |-> t, value |-> v]

\* yaml.Unmarshal(*(tmp.Items), &src) with src an interface{}
Decode(jv) ==
    IF jv.j = "number" THEN GoFloat64(jv.f)
    ELSE IF jv.j = "string" THEN GoString(jv.s)
    ELSE IF jv.j = "bool" THEN GoBool(jv.b)
    ELSE IF jv.j = "object" THEN GoMap
    ELSE GoArray

Parsed(res, b, v) ==
    [res |-> res, cmd |-> [Name |-> b.name, Type |-> b.type, Value |-> v]]

RECURSIVE UnmarshalJSON(_)
RECURSIVE UnmarshalItems(_)

UnmarshalItemsSkipsFailed(items) ==
    IF items = <<>> THEN {[res |-> "ok", items |-> <<>>]}
    ELSE UNION {
        {[res |-> "ok",
          items |-> (IF h.res = "ok" THEN <<h.cmd>> ELSE <<>>) \o t.items] :
            t \in UnmarshalItems(Tail(items))} :
        h \in UnmarshalJSON(Head(items))}

\* json.Unmarshal into a []Command, element by element in the order of the
\* array: each element by Command.UnmarshalJSON, the first that fails ends
\* the decoding with its error (a panic unwinds it).
UnmarshalItems(items) ==
    IF items = <<>> THEN {[res |-> "ok", items |-> <<>>]}
    ELSE UNION {
        IF h.res # "ok" THEN {[res |-> h.res, items |-> <<>>]}
        ELSE {IF t.res = "ok"
              THEN [res |-> "ok", items |-> <<h.cmd>> \o t.items]
              ELSE t : t \in UnmarshalItems(Tail(items))} :
        h \in UnmarshalJSON(Head(items))}

\* yaml.Unmarshal(*(tmp.Items), &items) with items a []Command
UnmarshalCommands(jv) ==
    IF jv.j = "commands" THEN UnmarshalItems(jv.items)
    ELSE {[res |-> "error", items |-> <<>>]}

\* func (cmds *Command) UnmarshalJSON(b []byte) error, for b the text of a
\* command object: the results it can have ("panic": *(tmp.Items) with
\* tmp.Items nil).
UnmarshalJSON(b) ==
    LET absent == b.value.j = "absent" IN
    IF b.type \in {"complex", "single"}
    THEN IF absent THEN {Parsed("panic", b, NoValue)}
         ELSE {IF r.res = "ok" THEN Parsed("ok", b, Typed("[]Command", r.items))
               ELSE Parsed(r.res, b, NoValue) : r \in UnmarshalCommands(b.value)}
    ELSE IF b.type = "json"
    THEN IF absent THEN {Parsed("panic", b, NoValue)}
         ELSE IF b.value.j = "object"
         THEN {Parsed("ok", b, Typed("map[string]interface{}", 0))}
         ELSE {Parsed("error", b, NoValue)}
    ELSE IF b.type = "jsonarray"
    THEN IF absent THEN {Parsed("panic", b, NoValue)}
         ELSE IF b.value.j = "commands"
         THEN {Parsed("ok", b, Typed("[]map[string]interface{}", 0))}
         ELSE {Parsed("error", b, NoValue)}
    ELSE IF b.type = "raw"
    THEN IF absent THEN {Parsed("panic", b, NoValue)}
         ELSE {Parsed("ok", b, Typed("string", b.value))}
    ELSE IF b.type # "" /\ ~absent
    THEN {IF r.err THEN Parsed("error", b, NoValue) ELSE Parsed("ok", b, r.dst) :
             r \in StrToType(b.type, Decode(b.value))}
    ELSE {Parsed("ok", b, NoValue)}

\* ------------------------------------------------ the arguments tried
SeqsUpTo(S, n) == UNION {[1..k -> S] : k \in 0..n}

StrAlphabet == {"1", "2", "7", ",", ".", "-", "N", "a"}

\* Numerals in scientific notation, with and without commas, and what is
\* left of one when a part is missing.
SciStrings == {<<"1", "e", "2">>, <<"1", "E", "2">>, <<"2", ".", "7", "e", "1">>,
               <<"1", ",", "2", "e", "1">>, <<"1", ",", "2", "E", "+", "1">>,
               <<"2", "7", "e", "-", "1">>, <<"1", ",", "5", "e", "-", "1">>,
               <<"e", "1">>, <<"1", "e">>, <<"1", ",", "e", "1">>,
               <<"1", ",", "2", "e", "x">>}

ClaimStrings == {<<"1", ",", "2", "3", "4">>, <<"2", ".", "7">>,
                 <<"-", "2", ".", "7">>}

BoolStrings ==
    TrueTokens \cup FalseTokens \cup
    {<<"T", "R", "U", "E">>, <<"Y", "e", "s">>, <<"N", "O">>, <<"F">>,
     <<"m", "a", "y", "b", "e">>, <<"o", "n">>, <<"U+4E0D">>}

GoStrings ==
    SeqsUpTo(StrAlphabet, MaxStrLen) \cup SciStrings \cup ClaimStrings
        \cup BoolStrings

GoValues ==
    {Nil, GoBool(TRUE), GoBool(FALSE), GoArray, GoMap}
        \cup {GoInt(i) : i \in (0 - 2)..2}
        \cup {GoInt64(i) : i \in (0 - 2)..2}
        \cup {GoInt32(i) : i \in (0 - 2)..2}
        \cup {GoFloat64(Tenths(t)) : t \in (0 - MaxTenths)..MaxTenths}
        \cup {GoFloat32(Tenths(t)) : t \in {0 - 25, 25}}
        \cup {GoString(s) : s \in GoStrings}

\* The type tags tried: the recognized ones but time, geometry and
\* bson.RegEx, an unknown one and the empty one.
CmdTags == {"int", "float", "string", "bool", "list", "array", "map", "json",
            "jsonarray", "raw", "complex", "single", "foo", ""}

CmdValues == {JAbsent, JNum(Tenths(25)), JStr(<<"7">>), JStr(<<"y", "e", "s">>),
              JBool(TRUE), JArr, JObj, JCmds(<<>>)}

\* Command objects without nested ones.
CmdLeaves == {CmdObject("n", t, v) : t \in CmdTags, v \in CmdValues}

\* The nested commands tried: one that parses to an int64, one to a bool,
\* one whose value cannot be converted, one without a value.
CmdItems == {CmdObject("a", "int", JNum(Tenths(25))),
             CmdObject("b", "bool", JStr(<<"y", "e", "s">>)),
             CmdObject("c", "int", JStr(<<"y", "e", "s">>)),
             CmdObject("d", "single", JAbsent)}

\* A complex or single command over each sequence of k or less of S.
Nesting(n, S, k) ==
    {CmdObject(n, t, JCmds(items)) :
        t \in {"complex", "single"}, items \in SeqsUpTo(S, k)}

CmdNested == Nesting("n", CmdItems \cup Nesting("m", CmdItems, 1), MaxItems)

CmdObjects == CmdLeaves \cup CmdNested

\* The sources tried for the map and the list tags: values of the target
\* shapes, JSON texts, other strings, other kinds.
ShapeSources ==
    {Nil, GoArray, GoMap, GoArrayPtr(GoArray), GoBool(TRUE), GoInt(1),
     GoFloat64(Tenths(25))}
        \cup {GoString(s) : s \in JSONObjectTexts \cup JSONArrayTexts}
        \cup {GoString(s) : s \in {JSONNull, <<>>, <<"1">>, <<"a">>, <<"{">>,
                                    <<"[", "1">>, <<"\"", "a", "\"">>}}

StrToTypeCalls ==
    {[fn |-> "StrToType", arg |-> [typeStr |-> t, src |-> v]] :
        t \in {"map", "list", "array"}, v \in ShapeSources}

\* The strings and the layouts tried for the conversion to time: dates
\* with each separator, with and without padding, with an embedded layout
\* that fits the value and one that does not, dates that do not exist, and
\* strings that are no dates.
TimeStrings ==
    {<<"2", "0", "2", "4", "-", "0", "1", "-", "0", "2">>,
     <<"2", "0", "2", "4", "-", "1", "-", "2">>,
     <<"2", "0", "2", "4", "/", "1", "/", "2">>,
     <<"2", "0", "2", "4", ".", "1", ".", "2">>,
     <<"2", "0", "2", "4", "-", "1", "-", "2", ":", ":", "2", "0", "0", "6", "-", "1", "-", "2">>,
     <<"2", "0", "2", "4", "-", "1", "-", "2", ":", ":", "2", "0", "0", "6", "-", "0", "1", "-", "0", "2">>,
     <<"2", "0", "2", "4", "-", "0", "1", "-", "0", "2", ":", ":", "2", "0", "0", "6", "-", "0", "1", "-", "0", "2">>,
     <<"0", "2", "/", "0", "1", "/", "2", "0", "2", "4", ":", ":", "0", "2", "/", "0", "1", "/", "2", "0", "0", "6">>,
     <<"2", "0", "2", "4", "-", "1", "3", "-", "0", "2">>,
     <<"2", "0", "2", "3", "-", "0", "2", "-", "2", "9">>,
     <<"2", "0", "2", "4", "-", "0", "2", "-", "2", "9">>,
     <<"2", "0", "2", "4", "-", "1", "-", "2", "-", "3">>,
     <<"2", "0", "2", "4", "0", "1", "0", "2">>,
     <<"2", "0", "2", "4", "-", "0", "1", "-", "0", "2", ":", ":">>,
     <<"1", ":", ":", "2", ":", ":", "3">>,
     <<"2", "0", "2", "4", "-", "1">>,
     <<"a", "b", "c">>,
     <<>>}

TimeLayouts ==
    {<<"2", "0", "0", "6", "-", "0", "1", "-", "0", "2">>,
     <<"2", "0", "0", "6", "/", "0", "1", "/", "0", "2">>,
     <<"2", "0", "0", "6", "0", "1", "0", "2">>}

TimeSources ==
    {Nil, GoTime(Date(2024, 1, 2)), GoTime(Unix(1)), GoBool(TRUE), GoMap,
     Decode(JNum(Tenths(10))), Decode(JNum(Tenths(25)))}
        \cup {GoInt(i) : i \in 0..1}
        \cup {GoInt64(i) : i \in 0..1}
        \cup {GoString(str) : str \in TimeStrings}

TimeFromInterfaceCalls ==
    {[fn |-> "TimeFromInterface", arg |-> [val |-> v, layout |-> l]] :
        v \in TimeSources, l \in TimeLayouts}

\* The column lists, the contents and the maps tried: lists with a column
\* twice, contents shorter and longer than the columns, maps that lack a
\* column and maps with a key that is no column, nil among the values.
ColumnNames == {"a", "b"}
MapKeys == ColumnNames \cup {"c"}
CellValues == {Nil, GoInt(1), GoInt(2)}
ColumnLists == SeqsUpTo(ColumnNames, MaxColumns)
ContentArrays == SeqsUpTo(CellValues, MaxContents)
ContentMaps == UNION {[K -> CellValues] : K \in SUBSET MapKeys}

RemapCalls ==
    {[fn |-> "ArrayToMap", arg |-> [columns |-> c, contents |-> a]] :
        c \in ColumnLists, a \in ContentArrays}
        \cup {[fn |-> "MapToArray", arg |-> [columns |-> c, contents |-> m]] :
                 c \in ColumnLists, m \in ContentMaps}

FnCall(f) ==
    /\ fin.fn = f
    /\ fout.fn = "none"
    /\ UNCHANGED <<execVars, tableVars, lifeVars, regVars, fin>>

IntFromInterfaceCall ==
    /\ FnCall("IntFromInterface")
    /\ \E r \in IntFromInterface(fin.arg) : fout' = [fn |-> fin.fn, r |-> r]

BoolFromInterfaceCall ==
    /\ FnCall("BoolFromInterface")
    /\ fout' = [fn |-> fin.fn, r |-> BoolFromInterface(fin.arg)]

FnCalls ==
    {[fn |-> f, arg |-> v] :
        f \in {"IntFromInterface", "BoolFromInterface"}, v \in GoValues}
        \cup {[fn |-> "UnmarshalJSON", arg |-> c] : c \in CmdObjects}
        \cup StrToTypeCalls
        \cup TimeFromInterfaceCalls
        \cup RemapCalls

FnInit ==
    /\ NoRun
    /\ LifeIdle
    /\ RegIdle
    /\ NewTable
    /\ fin \in FnCalls
    /\ fout = [fn |-> "none"]

UnmarshalJSONCall ==
    /\ FnCall("UnmarshalJSON")
    /\ \E r \in UnmarshalJSON(fin.arg) : fout' = [fn |-> fin.fn, r |-> r]

StrToTypeCall ==
    /\ FnCall("StrToType")
    /\ \E r \in StrToType(fin.arg.typeStr, fin.arg.src) :
           fout' = [fn |-> fin.fn, r |-> r]

TimeFromInterfaceCall ==
    /\ FnCall("TimeFromInterface")
    /\ fout' = [fn |-> fin.fn, r |-> TimeFromInterface(fin.arg.val, fin.arg.layout)]

ArrayToMapCall ==
    /\ FnCall("ArrayToMap")
    /\ fout' = [fn |-> fin.fn, r |-> ArrayToMap(fin.arg.columns, fin.arg.contents)]

MapToArrayCall ==
    /\ FnCall("MapToArray")
    /\ fout' = [fn |-> fin.fn, r |-> MapToArray(fin.arg.columns, fin.arg.contents)]

\* The caller remaps the map ArrayToMap returned back by the same columns.
MapToArrayBack ==
    /\ fout.fn = "ArrayToMap"
    /\ fout.r.res = "ok"
    /\ fout' = [fn |-> "ArrayToMap;MapToArray",
                r |-> MapToArray(fin.arg.columns, fout.r.m)]
    /\ UNCHANGED <<execVars, tableVars, lifeVars, regVars, fin>>

\* The caller remaps the array MapToArray returned back by the same columns.
ArrayToMapBack ==
    /\ fout.fn = "MapToArray"
    /\ fout.r.res = "ok"
    /\ fout' = [fn |-> "MapToArray;ArrayToMap",
                r |-> ArrayToMap(fin.arg.columns, fout.r.a)]
    /\ UNCHANGED <<execVars, tableVars, lifeVars, regVars, fin>>

FnNext ==
    \/ IntFromInterfaceCall
    \/ BoolFromInterfaceCall
    \/ UnmarshalJSONCall
    \/ StrToTypeCall
    \/ TimeFromInterfaceCall
    \/ ArrayToMapCall
    \/ MapToArrayCall
    \/ MapToArrayBack
    \/ ArrayToMapBack

SpecFn == FnInit /\ [][FnNext]_vars

\* The integer nearest to t tenths, the one farther from zero of two.
RoundHalfAway(t) ==
    LET R == (0 - (MaxTenths \div 10) - 1)..((MaxTenths \div 10) + 1)
        Abs(x) == IF x < 0 THEN 0 - x ELSE x
    IN  CHOOSE n \in R :
            /\ Abs(10 * n - t) <= 5
            /\ \A m \in R : Abs(10 * m - t) <= 5 => Abs(m) <= Abs(n)

\* A string with a character no numeral has is not numeric.
NumeralChars == {DigitChars[i] : i \in 1..10} \cup {",", ".", "-", "+", "e", "E"}
NotNumeric(s) == \E i \in 1..Len(s) : s[i] \notin NumeralChars

\* The integer an integer value holds.
IntegerKinds == {"int", "int64"}

\* What C19 says of the conversions of everything but strings, and of the
\* strings it names.
IntFromInterfaceOfNumbers ==
    fout.fn = "IntFromInterface" =>
        LET v == fin.arg
            r == fout.r
            is(i) == ~r.err /\ r.sat = "no" /\ r.val = i
        IN  /\ v.k \in IntegerKinds => is(v.i)
            /\ v.k = "float64" => is(RoundHalfAway(v.f.num))
            /\ v = GoFloat64(Tenths(25)) => is(3)
            /\ v = GoFloat64(Tenths(0 - 25)) => is(0 - 3)
            /\ v = GoFloat64(Tenths(24)) => is(2)
            /\ v = GoFloat64(Tenths(0 - 24)) => is(0 - 2)
            /\ v = GoString(<<"1", ",", "2", "3", "4">>) => is(1234)
            /\ v = GoString(<<"2", ".", "7">>) => is(2)
            /\ v = GoString(<<"-", "2", ".", "7">>) => is(0 - 2)
            /\ v = GoString(<<"2", ".", "7", "e", "1">>) => is(27)
            /\ v = GoString(<<"1", ",", "5", "e", "-", "1">>) => is(1)
            /\ v.k \notin IntegerKinds \cup {"float64", "string"} => r.err

\* C19: IntFromInterface returns an integer unchanged, a float rounded to
\* the nearest integer (ties away from zero), a numeric string parsed as a
\* float and truncated toward zero, and an error for nil, for a string that
\* is not numeric and for every other kind.
C19_IntFromInterface ==
    /\ IntFromInterfaceOfNumbers
    /\ (fout.fn = "IntFromInterface" /\ fin.arg.k = "string"
           /\ NotNumeric(fin.arg.s)) => fout.r.err

\* C20: BoolFromInterface returns a boolean unchanged, maps a string whose
\* lower-cased form is a true or a false token to that value, and returns an
\* error for every other string and every other kind, nil included.
C20_BoolFromInterface ==
    fout.fn = "BoolFromInterface" =>
        LET v == fin.arg
            r == fout.r
        IN  /\ v.k = "bool" => (~r.err /\ r.b = v.b)
            /\ (v.k = "string" /\ ToLower(v.s) \in TrueTokens) =>
                   (~r.err /\ r.b)
            /\ (v.k = "string" /\ ToLower(v.s) \in FalseTokens) =>
                   (~r.err /\ ~r.b)
            /\ (v.k = "string" /\ ToLower(v.s) \notin TrueTokens \cup FalseTokens)
                   => r.err
            /\ v.k \notin {"bool", "string"} => r.err

RecognizedTags == {"int", "string", "float", "bool", "time", "map", "list",
                   "array", "geometry", "json", "jsonarray", "bson.RegEx",
                   "complex", "single", "raw"}

\* The dynamic type of the Value of a Command of each recognized type.
KindOfTag(t) ==
    CASE t = "int" -> "int64"
      [] t = "float" -> "float64"
      [] t \in {"string", "raw"} -> "string"
      [] t = "bool" -> "bool"
      [] t = "time" -> "time.Time"
      [] t \in {"map", "json"} -> "map[string]interface{}"
      [] t \in {"list", "array"} -> "[]interface{}"
      [] t = "geometry" -> "Geometry"
      [] t = "jsonarray" -> "[]map[string]interface{}"
      [] t = "bson.RegEx" -> "bson.RegEx"
      [] t \in {"complex", "single"} -> "[]Command"

\* C17: a Command that UnmarshalJSON returned without an error has a
\* recognized type and a Value of the dynamic type of that tag; an
\* unrecognized tag and an absent value make it return an error; it never
\* panics.
C17_ParsedCommandIsTyped ==
    fout.fn = "UnmarshalJSON" =>
        /\ fout.r.res # "panic"
        /\ fout.r.res = "ok" =>
              /\ fout.r.cmd.Type \in RecognizedTags
              /\ fout.r.cmd.Value.k = KindOfTag(fout.r.cmd.Type)
        /\ (fin.arg.type \notin RecognizedTags \/ fin.arg.value = JAbsent) =>
              fout.r.res = "error"

\* The nested command objects of a complex or single command object.
IsNesting(b) == b.type \in {"complex", "single"} /\ b.value.j = "commands"

\* C18: the parse of a complex or single command over an array of n
\* command objects is, when each of them parses, a Command whose Value is
\* the sequence of the n parses in the order of the array, each with the
\* name and the type of its object; when one of them fails, the parse fails.
C18_NestedCommandsInOrder ==
    (fout.fn = "UnmarshalJSON" /\ IsNesting(fin.arg)) =>
        LET items == fin.arg.value.items
            good(i) == \A r \in UnmarshalJSON(items[i]) : r.res = "ok"
        IN  IF \A i \in 1..Len(items) : good(i)
            THEN /\ fout.r.res = "ok"
                 /\ fout.r.cmd.Value.k = "[]Command"
                 /\ Len(fout.r.cmd.Value.v) = Len(items)
                 /\ \A i \in 1..Len(items) :
                       /\ fout.r.cmd.Value.v[i].Name = items[i].name
                       /\ fout.r.cmd.Value.v[i].Type = items[i].type
                       /\ \E r \in UnmarshalJSON(items[i]) :
                             fout.r.cmd.Value.v[i] = r.cmd
            ELSE fout.r.res # "ok"

C18_Witness ==
    /\ fout.fn = "UnmarshalJSON"
    /\ IsNesting(fin.arg)
    /\ fout.r.res = "ok"
    /\ Len(fout.r.cmd.Value.v) = 2
    /\ fout.r.cmd.Value.v[1].Type = "single"
    /\ Len(fout.r.cmd.Value.v[1].Value.v) = 1
    /\ fout.r.cmd.Value.v[1].Value.v[1].Value = Typed("bool", TRUE)
    /\ fout.r.cmd.Value.v[2].Value = Typed("int64", Int64(3))

\* C18, a nested command that fails: the whole parse fails.
C18_WitnessFails ==
    /\ fout.fn = "UnmarshalJSON"
    /\ IsNesting(fin.arg)
    /\ Len(fin.arg.value.items) = 2
    /\ fin.arg.value.items[1].name = "a"
    /\ fin.arg.value.items[2].name = "c"
    /\ fout.r.res = "error"

\* The shape each of the tags map, list and array converts to.
IsShapeTag(t) == t \in {"map", "list", "array"}
ShapeOfTag(t) == IF t = "map" THEN "map[string]interface{}" ELSE "[]interface{}"

\* The string s is the JSON text of a value of the shape of the tag t.
IsJSONOfShape(t, s) ==
    IF t = "map" THEN s \in JSONObjectTexts ELSE s \in JSONArrayTexts

\* C21: for the tags map, list and array, StrToType returns a source that
\* already has the target shape unchanged, parses a source that is a string
\* holding the JSON text of that shape into a value of the shape, and
\* returns an error for every other source.
C21_StrToTypeShapes ==
    (fout.fn = "StrToType" /\ IsShapeTag(fin.arg.typeStr)) =>
        LET t == fin.arg.typeStr
            src == fin.arg.src
            r == fout.r
        IN  IF src.k = ShapeOfTag(t)
            THEN ~r.err /\ r.dst = Typed(ShapeOfTag(t), src)
            ELSE IF src.k = "string" /\ IsJSONOfShape(t, src.s)
            THEN ~r.err /\ r.dst.k = ShapeOfTag(t)
            ELSE r.err

\* C21 for the tag map and everything that is not the string "null".
C21_MapSources ==
    (fout.fn = "StrToType" /\ fin.arg.typeStr = "map"
        /\ fin.arg.src # GoString(JSONNull)) =>
        LET src == fin.arg.src
            r == fout.r
        IN  IF src.k = "map[string]interface{}"
            THEN ~r.err /\ r.dst = Typed("map[string]interface{}", src)
            ELSE IF src.k = "string" /\ src.s \in JSONObjectTexts
            THEN ~r.err /\ r.dst = Typed("map[string]interface{}", GoMapOfJSON(src.s))
            ELSE r.err

\* A float64 that holds an integer: what a JSON integer decodes to.
IsJSONInteger(v) ==
    /\ v.k = "float64"
    /\ v.f.cls = "fin"
    /\ v.f.exp = 0 - 1
    /\ v.f.num % 10 = 0
JSONIntegerOf(v) == v.f.num \div 10

\* A string "value::layout" with a layout that is not empty.
HasEmbeddedLayout(str) == Len(Split(str, <<":", ":">>)) > 1 /\ Split(str, <<":", ":">>)[2] # <<>>

\* The outcome r is that of parsing value against layout.
IsParseOf(r, layout, value) ==
    LET p == ParseInLocation(layout, value)
    IN  r.err = p.err /\ (~r.err => r.t = p.t)

\* What C22 says of the sources that are no integers: a time unchanged, a
\* string with an embedded layout parsed by it as it is, any other string
\* normalized and parsed by the layout of the caller, an error for every
\* other kind.
TimeFromInterfaceOf(v, layout, r) ==
    LET d == GoTime(Date(2024, 1, 2))
        is(str, l, t) == (v = GoString(str) /\ layout = l) => (~r.err /\ r.t = t)
        fails(str) == v = GoString(str) => r.err
    IN  /\ v.k = "time.Time" => (~r.err /\ r.t = v)
        /\ (v.k = "string" /\ HasEmbeddedLayout(v.s)) =>
               IsParseOf(r, Split(v.s, <<":", ":">>)[2], Split(v.s, <<":", ":">>)[1])
        /\ (v.k = "string" /\ ~HasEmbeddedLayout(v.s)) =>
               LET f == formatTime(Split(v.s, <<":", ":">>)[1])
               IN  IF f.err THEN r.err ELSE IsParseOf(r, layout, f.s)
        /\ v = GoString(<<"2", "0", "2", "4", "-", "1", "-", "2", ":", ":", "2", "0", "0", "6", "-", "1", "-", "2">>) => (~r.err /\ r.t = d)
        /\ fails(<<"2", "0", "2", "4", "-", "1", "-", "2", ":", ":", "2", "0", "0", "6", "-", "0", "1", "-", "0", "2">>)
        /\ is(<<"2", "0", "2", "4", "-", "1", "-", "2">>, <<"2", "0", "0", "6", "-", "0", "1", "-", "0", "2">>, d)
        /\ is(<<"2", "0", "2", "4", ".", "1", ".", "2">>, <<"2", "0", "0", "6", "-", "0", "1", "-", "0", "2">>, d)
        /\ is(<<"2", "0", "2", "4", "/", "1", "/", "2">>, <<"2", "0", "0", "6", "/", "0", "1", "/", "0", "2">>, d)
        /\ is(<<"2", "0", "2", "4", "0", "1", "0", "2">>, <<"2", "0", "0", "6", "0", "1", "0", "2">>, d)
        /\ fails(<<"2", "0", "2", "3", "-", "0", "2", "-", "2", "9">>)
        /\ fails(<<"a", "b", "c">>)
        /\ v.k \notin {"time.Time", "string", "int", "int64", "float64"} => r.err
        /\ (v.k = "float64" /\ ~IsJSONInteger(v)) => r.err

C22_ExceptInt64AndJSON ==
    fout.fn = "TimeFromInterface" =>
        /\ TimeFromInterfaceOf(fin.arg.val, fin.arg.layout, fout.r)
        /\ fin.arg.val.k = "int" =>
               (~fout.r.err /\ fout.r.t = GoTime(Unix(fin.arg.val.i)))

\* C22: the conversion to time returns a time unchanged, the instant of a
\* Unix timestamp held by an int, by an int64 or by the float64 a JSON
\* integer decodes to, the parse of a string (by its embedded layout as it
\* is, or normalized and by the layout of the caller), and an error for
\* every other kind.
C22_TimeFromInterface ==
    fout.fn = "TimeFromInterface" =>
        LET v == fin.arg.val
            r == fout.r
        IN  /\ TimeFromInterfaceOf(v, fin.arg.layout, r)
            /\ v.k \in IntegerKinds => (~r.err /\ r.t = GoTime(Unix(v.i)))
            /\ IsJSONInteger(v) => (~r.err /\ r.t = GoTime(Unix(JSONIntegerOf(v))))

\* The keys of m are the columns; no column is listed twice.
KeysAreColumns(m, columns) == DOMAIN m = {columns[i] : i \in 1..Len(columns)}
Distinct(columns) ==
    \A i, j \in 1..Len(columns) : columns[i] = columns[j] => i = j

\* C23, from a map: for a list of columns that is not empty and a map m
\* whose keys are the columns, ArrayToMap(columns, MapToArray(columns, m))
\* is m.
MapRoundTrip ==
    (fout.fn = "MapToArray;ArrayToMap" /\ Len(fin.arg.columns) > 0
        /\ KeysAreColumns(fin.arg.contents, fin.arg.columns)) =>
        (fout.r.res = "ok" /\ fout.r.m = fin.arg.contents)

\* C23, from an array with one value per column
ArrayRoundTrip ==
    (fout.fn = "ArrayToMap;MapToArray" /\ Len(fin.arg.columns) > 0
        /\ Len(fin.arg.contents) = Len(fin.arg.columns)) =>
        (fout.r.res = "ok" /\ fout.r.a = fin.arg.contents)

\* C23 as stated: for every list of columns that is not empty the two
\* remaps are inverse: ArrayToMap(columns, MapToArray(columns, m)) = m for
\* every map m whose keys are the columns, and MapToArray(columns,
\* ArrayToMap(columns, contents)) = contents for every array contents with
\* one value per column.
C23_RemapsInverse == MapRoundTrip /\ ArrayRoundTrip

\* C23 amended: the same, the second half for lists that name no column
\* twice.
C23_RemapsInverseOnDistinctColumns ==
    /\ MapRoundTrip
    /\ (fout.fn = "ArrayToMap;MapToArray" /\ Distinct(fin.arg.columns))
           => ArrayRoundTrip

C23_Witness ==
    /\ fout.fn = "ArrayToMap;MapToArray"
    /\ fin.arg.columns = <<"b", "a">>
    /\ fin.arg.contents = <<Nil, GoInt(2)>>
    /\ fout.r.a = <<Nil, GoInt(2)>>

C23_WitnessMap ==
    /\ fout.fn = "MapToArray;ArrayToMap"
    /\ fin.arg.columns = <<"a", "a">>
    /\ DOMAIN fin.arg.contents = {"a"}
    /\ fout.r.res = "ok"
    /\ fout.r.m = fin.arg.contents

\* C24: ArrayToMap returns an error and no map, and does not panic, for
\* every list of columns and every array of contents of different lengths,
\* the longer being the one or the other.
C24_ArrayToMapLengthMismatch ==
    (fout.fn = "ArrayToMap" /\ Len(fin.arg.columns) # Len(fin.arg.contents)) =>
        fout.r.res = "error"

\* C24 for more contents than columns.
C24_MoreContents ==
    (fout.fn = "ArrayToMap" /\ Len(fin.arg.columns) < Len(fin.arg.contents)) =>
        fout.r.res = "error"

\* C25: MapToArray with a list of columns that is not empty does not fail:
\* its result has one entry for each column, the value of contents under
\* that column, nil when contents has no such key; the keys of contents
\* that are no columns are ignored, and contents is left as it was.
C25_MapToArrayTotal ==
    (fout.fn = "MapToArray" /\ Len(fin.arg.columns) > 0) =>
        LET columns == fin.arg.columns
            contents == fin.arg.contents
            r == fout.r
        IN  /\ r.res = "ok"
            /\ Len(r.a) = Len(columns)
            /\ \A i \in 1..Len(columns) :
                  r.a[i] = IF columns[i] \in DOMAIN contents
                           THEN contents[columns[i]] ELSE Nil
            /\ \A m \in ContentMaps :
                  (\A i \in 1..Len(columns) :
                      /\ columns[i] \in DOMAIN m <=> columns[i] \in DOMAIN contents
                      /\ columns[i] \in DOMAIN m => m[columns[i]] = contents[columns[i]])
                  => MapToArray(columns, m).a = r.a
            /\ r.contents = contents

C25_Witness ==
    /\ fout.fn = "MapToArray"
    /\ fin.arg.columns = <<"a", "b">>
    /\ DOMAIN fin.arg.contents = {"b", "c"}
    /\ fin.arg.contents["b"] = GoInt(1)
    /\ fout.r.res = "ok"
    /\ fout.r.a = <<Nil, GoInt(1)>>

\* ================================================================
\* driver.Table: the rows in memory behind the Rows interface.
\* ================================================================
\* The rows tried, of one cell each.
TableRows == {<<GoInt(i)>> : i \in 1..2}
TableData == SeqsUpTo(TableRows, MaxTableRows)

\* The destinations handed to Next: a **[]interface{}, a *interface{}, a
\* []interface{} of some length holding nils, and a value of another type.
SliceDst(n) == [k |-> "[]interface{}", len |-> n]
TableDsts ==
    {[k |-> "**[]interface{}"], [k |-> "*interface{}"], [k |-> "*int"]}
        \cup {SliceDst(n) : n \in 0..2}

\* A call of a method of the Table by its owner.
TableCall ==
    /\ tcalls < MaxTableCalls
    /\ tcalls' = tcalls + 1
    /\ UNCHANGED <<execVars, lifeVars, regVars, fnVars>>

\* What a call of Next that finds a row leaves in dst: the row through the
\* two pointers, its cells one by one in a slice (index out of range in a
\* slice that is too short), nothing in anything else.
NextInto(dst, row) ==
    IF dst.k \in {"**[]interface{}", "*interface{}"}
    THEN [res |-> "ok", got |-> <<row>>]
    ELSE IF dst.k = "[]interface{}"
    THEN IF dst.len < Len(row)
         THEN [res |-> "panic", got |-> <<SubSeq(row, 1, dst.len)>>]
         ELSE [res |-> "ok",
               got |-> <<row \o [i \in 1..(dst.len - Len(row)) |-> Nil]>>]
    ELSE [res |-> "ok", got |-> <<>>]

\* func (t *Table) Next(dst interface{}) error
TableNext(dst) ==
    /\ TableCall
    /\ IF tcursor >= Len(tdata)
       THEN /\ tout' = [op |-> "Next", dst |-> dst, at |-> tcursor,
                      res |-> "end", got |-> <<>>]
            /\ tended' = TRUE
            /\ UNCHANGED <<tdata, tcursor, tnexts>>
       ELSE LET r == NextInto(dst, tdata[tcursor + 1])
            IN  /\ tout' = [op |-> "Next", dst |-> dst, at |-> tcursor,
                          res |-> r.res, got |-> r.got]
                /\ tcursor' = IF r.res = "ok" THEN tcursor + 1 ELSE tcursor
                /\ tnexts' = IF r.res = "ok" THEN tnexts + 1 ELSE tnexts
                /\ UNCHANGED <<tdata, tended>>

NextCall == \E dst \in TableDsts : TableNext(dst)

\* func (t *Table) AppendData(data []interface{})
AppendData ==
    /\ TableCall
    /\ Len(tdata) < MaxTableRows
    /\ \E row \in TableRows : tdata' = Append(tdata, row)
    /\ tout' = [op |-> "AppendData"]
    /\ UNCHANGED <<tcursor, tnexts, tended>>

\* func (t *Table) SetData(data [][]interface{})
SetData ==
    /\ TableCall
    /\ \E data \in TableData : tdata' = data
    /\ tout' = [op |-> "SetData"]
    /\ UNCHANGED <<tcursor, tnexts, tended>>

\* func (t *Table) ResetCurosr()
ResetCurosr ==
    /\ TableCall
    /\ tcursor' = 0
    /\ tout' = [op |-> "ResetCurosr"]
    /\ UNCHANGED <<tdata, tnexts, tended>>

\* func (t *Table) Close() error
TableClose ==
    /\ TableCall
    /\ tout' = [op |-> "Close", res |-> "ok"]
    /\ UNCHANGED <<tdata, tcursor, tnexts, tended>>

TableInit ==
    /\ NoRun
    /\ LifeIdle
    /\ RegIdle
    /\ FnIdle
    /\ NewTable

TableStep ==
    \/ NextCall
    \/ AppendData
    \/ SetData
    \/ ResetCurosr
    \/ TableClose

SpecTable == TableInit /\ [][TableStep]_vars

\* Next copies the whole row into dst.
TakesRow(dst) ==
    \/ dst.k \in {"**[]interface{}", "*interface{}"}
    \/ dst.k = "[]interface{}" /\ dst.len = 1

\* What C26 says of one call of Next by the cursor it finds: a row under
\* the cursor is delivered and the cursor moves by one; at the end the
\* call returns the error and leaves the cursor.
NextByCursor ==
    tout.op = "Next" =>
        /\ (tout.res = "ok" /\ TakesRow(tout.dst)) =>
               /\ tout.at < Len(tdata)
               /\ tout.got = <<tdata[tout.at + 1]>>
               /\ tcursor = tout.at + 1
        /\ tout.res = "end" => (tout.at >= Len(tdata) /\ tcursor = tout.at)

\* A call of Next that returns the end error leaves the data and the
\* cursor as they were.
EndLeavesTable ==
    [][(tout'.op = "Next" /\ tout'.res = "end" /\ tcalls' # tcalls) =>
           (tdata' = tdata /\ tcursor' = tcursor)]_vars

\* C26: on a Table the k-th call of Next that succeeds delivers row k, in
\* the order the rows were put in, and moves the cursor by one; a call of
\* Next at the end returns the end error and leaves the cursor; and after
\* a Next has returned the end error no later Next succeeds.
C26_TableSinglePass ==
    /\ NextByCursor
    /\ (tout.op = "Next" /\ tout.res = "ok" /\ TakesRow(tout.dst)) =>
           /\ tnexts <= Len(tdata)
           /\ tout.got = <<tdata[tnexts]>>
    /\ ~(tended /\ tout.op = "Next" /\ tout.res = "ok")

\* The calls of SetBatch that FlashBatch made on the extract handler, in
\* their order.
FlashBatchCalls == SelectSeq(mainCalls, LAMBDA c : c.op = "SetBatch")

\* C27: on a Transaction opened with BatchEnable("enable", B), with no call
\* of SetBatchSize from outside, the cursor after the k-th FlashBatch is
\* offset = k * B and limit = B, and the k-th FlashBatch passes that pair
\* to SetBatch of the extract handler; so with B = 0 the limit stays 0 and
\* the offset stays 0.
C27_FlashBatchCursor ==
    (batchCtl = "enable" /\ scalls = 0) =>
        LET k == Len(FlashBatchCalls) IN
        /\ offset = k * batchSize
        /\ limit = batchSize
        /\ \A j \in 1..k :
              /\ FlashBatchCalls[j].a = batchSize
              /\ FlashBatchCalls[j].b = j * batchSize
        /\ k > 0 => hBatch = SetBatch(batchSize, k * batchSize)
        /\ batchSize = 0 => (limit = 0 /\ offset = 0)

C27_Witness ==
    /\ batchCtl = "enable"
    /\ batchSize = 2
    /\ Len(FlashBatchCalls) = 2
    /\ offset = 4
    /\ hBatch = SetBatch(2, 4)

\* C27, B = 0: FlashBatch ran and the cursor is where it was.
C27_WitnessZero ==
    /\ batchCtl = "enable"
    /\ batchSize = 0
    /\ Len(FlashBatchCalls) >= 2
    /\ offset = 0
    /\ limit = 0

\* SetBatchSize was called, and returned, before Exec.
SetBatchSizeBeforeExec ==
    batchCtl = "enable" /\ pc = "ready" /\ scalls >= 1 /\ spc = "idle"

\* C28: SetBatchSize(b) on a Transaction opened with BatchEnable("enable",
\* B) sets limit to b, leaves offset as it was and hands (b, offset) to
\* SetBatch of the extract handler: called before Exec, it leaves the
\* offset at 0, where the first batch is extracted.
C28_SetBatchSizeKeepsOffset ==
    SetBatchSizeBeforeExec =>
        /\ limit = sarg
        /\ offset = 0
        /\ hBatch = SetBatch(sarg, 0)

\* C28 on a Transaction whose limit is 0.
C28_FromZeroLimit ==
    (SetBatchSizeBeforeExec /\ batchSize = 0 /\ scalls = 1) =>
        /\ limit = sarg
        /\ offset = 0
        /\ hBatch = SetBatch(sarg, 0)

\* C28 as the code has it: the offset moves by the limit the call finds.
C28_OffsetMovesByLimit ==
    (SetBatchSizeBeforeExec /\ scalls = 1) =>
        /\ limit = sarg
        /\ offset = batchSize
        /\ hBatch = SetBatch(sarg, batchSize)

====
